---- MODULE Spec2Model ----
(***************************************************************************)
(* kyeongan/event-finder.                                                  *)
(*                                                                         *)
(* Relevance scoring (backend/src/relevance.ts) and answer validation      *)
(* (src/config/questions.ts) are sets of pure functions.  They are         *)
(* modelled as operators computed the way the code computes them, and      *)
(* exercised by a caller that invokes one function at a time with          *)
(* arguments drawn from bounded sets and keeps the arguments and the       *)
(* returned value until it returns (specification Spec).                   *)
(*                                                                         *)
(* The event-search endpoint (backend/src/server.ts), the localStorage     *)
(* utilities (src/utils/storage.ts and its earlier version with the search *)
(* history) and the App component (src/App.tsx) are state machines, each   *)
(* with its own variables and its own specification.                       *)
(*                                                                         *)
(* Encoding of JavaScript values:                                          *)
(*   a string            a sequence of one-character strings               *)
(*   string | undefined  undefined is <<>>, a present string s is <<s>>    *)
(*   boolean | null      one of the strings "true", "false", "null"        *)
(***************************************************************************)
EXTENDS Integers, Sequences, FiniteSets

\* the caller of the pure functions
VARIABLES op, args, result
\* the event-search endpoint
VARIABLES srvPc, srvCriteria, srvUpstream, srvResponse
\* what the upstream call of the request came to, and the number of responses
\* sent for the request (history variables)
VARIABLES srvCause, srvSent

\* localStorage item 'eventFinder_appState', and the kind and the argument of
\* the last write to it (history variables)
VARIABLES stored, lastWrite, lastArg
\* the App component: its React state, the number of search requests in
\* flight, the last thing that happened to it and the last outcome a request
\* had (history variables)
VARIABLES stage, events, error, lastSearchParams, inFlight, appLast, lastResponse
\* localStorage item 'eventFinder_searchHistory', the reading of the clock, and
\* the entries added since the item was last cleared, oldest first (history
\* variable)
VARIABLES storedHistory, now, added
\* the QuestionFlow component: its React state and refs, the debounce timer,
\* the number of city requests in flight, the answers it completed with, and
\* what happened last and whether the location was picked from the suggestion
\* list since the form was mounted and not edited since (history variables)
VARIABLES currentQuestionIndex, flowAnswers, flowErrors, citySuggestions,
          showSuggestions, isLoadingSuggestions, showResumePrompt,
          validatedCities, cityJustSelected, timer, fetches, flowDone,
          flowLast, chosen
\* the cached GET handler: its position, the query of the request, the
\* entries of eventCache, the response, and for the request the upstream
\* calls made and the bodies cached, at its arrival, for requests equal to
\* it after normalization (history variables)
VARIABLES cachePc, cacheQuery, eventCache, cacheResponse, upstreamCalls, expected
\* the EventResults view: whether it is mounted, the events array it was
\* handed (the very array App holds), its filters and sort order, the list it
\* displays, and the events as they were when handed over (history variable)
VARIABLES resultsShown, received, filters, sortBy, filteredEvents, original

pureVars == <<op, args, result>>
serverVars == <<srvPc, srvCriteria, srvUpstream, srvResponse, srvCause, srvSent>>
storageVars == <<stored, lastWrite, lastArg>>
appVars == <<stage, events, error, lastSearchParams, inFlight, appLast, lastResponse>>
historyVars == <<storedHistory, now, added>>
resultsVars == <<resultsShown, received, filters, sortBy, filteredEvents, original>>
cacheVars == <<cachePc, cacheQuery, eventCache, cacheResponse, upstreamCalls, expected>>
flowVars == <<currentQuestionIndex, flowAnswers, flowErrors, citySuggestions,
              showSuggestions, isLoadingSuggestions, showResumePrompt,
              validatedCities, cityJustSelected, timer, fetches, flowDone,
              flowLast, chosen>>

vars == <<op, args, result, srvPc, srvCriteria, srvUpstream, srvResponse, srvCause, srvSent,
          stored, lastWrite, lastArg,
          stage, events, error, lastSearchParams, inFlight, appLast, lastResponse,
          storedHistory, now, added,
          currentQuestionIndex, flowAnswers, flowErrors, citySuggestions,
          showSuggestions, isLoadingSuggestions, showResumePrompt,
          validatedCities, cityJustSelected, timer, fetches, flowDone,
          flowLast, chosen,
          cachePc, cacheQuery, eventCache, cacheResponse, upstreamCalls, expected,
          resultsShown, received, filters, sortBy, filteredEvents, original>>

(***************************************************************************)
(* Bounds of the model.                                                    *)
(***************************************************************************)
\* longest string handed to a single evaluator
MaxLen == 3
\* positions range over -NegPositions .. MaxPosition
NegPositions == 3
MaxPosition == 12

\* characters: a letter in both cases and a letter that is already lower case
Alphabet == {"a", "A", "b"}

StringsUpTo(n) == UNION {[1..k -> Alphabet] : k \in 0..n}

undefined == <<>>
Some(s) == <<s>>
Optional(S) == {undefined} \cup {Some(s) : s \in S}

JsTrue == "true"
JsFalse == "false"
JsNull == "null"
TriState == {JsTrue, JsFalse, JsNull}
JsBool(b) == IF b THEN JsTrue ELSE JsFalse

Positions == (0 - NegPositions)..MaxPosition

\* arguments of a single evaluator call
EvaluatorArgs == Optional(StringsUpTo(MaxLen))

\* field values of the events and criteria handed to calculateRelevanceFactors
FieldValues == {undefined, Some(<<>>), Some(<<"a">>), Some(<<"A", "b">>), Some(<<"b">>)}
EventDatas == [name : FieldValues \ {undefined}, city : FieldValues, classification : FieldValues]
SearchCriterias == [keyword : FieldValues, city : FieldValues, classificationName : FieldValues]
FactorPositions == {0 - NegPositions, 0, 1, MaxPosition}

RelevanceFactorsSet == [position : Positions, hasKeywordMatch : TriState,
                        matchesClassification : TriState, matchesCity : TriState]

(***************************************************************************)
(* String primitives of the language.                                      *)
(***************************************************************************)
\* String.prototype.toLowerCase, character by character
LowerChar(c) == IF c = "A" THEN "a" ELSE c
toLowerCase(s) == [i \in 1..Len(s) |-> LowerChar(s[i])]

\* String.prototype.includes: t occurs in s as a contiguous substring
includes(s, t) == \E i \in 0..(Len(s) - Len(t)) : SubSeq(s, i + 1, i + Len(t)) = t

\* !x for x : string | undefined
Falsy(x) == x = undefined \/ x[1] = <<>>

Min(a, b) == IF a < b THEN a ELSE b

(***************************************************************************)
(* relevance.ts                                                            *)
(***************************************************************************)
\* variants of hasKeywordMatch with a slip: the event name tested before the
\* keyword; the comparison made without folding case
hasKeywordMatch_EventFirst(eventName, keyword) ==
    IF Falsy(eventName) THEN JsFalse
    ELSE IF Falsy(keyword) THEN JsNull
    ELSE JsBool(includes(toLowerCase(eventName[1]), toLowerCase(keyword[1])))

hasKeywordMatch_CaseSensitive(eventName, keyword) ==
    IF Falsy(keyword) THEN JsNull
    ELSE IF Falsy(eventName) THEN JsFalse
    ELSE JsBool(includes(eventName[1], keyword[1]))

hasKeywordMatch(eventName, keyword) ==
    IF Falsy(keyword) THEN JsNull
    ELSE IF Falsy(eventName) THEN JsFalse
    ELSE JsBool(includes(toLowerCase(eventName[1]), toLowerCase(keyword[1])))

\* variant of matchesClassification with a slip: containment instead of equality
matchesClassification_Substring(eventClassification, searchClassification) ==
    IF Falsy(searchClassification) THEN JsNull
    ELSE IF Falsy(eventClassification) THEN JsFalse
    ELSE JsBool(includes(toLowerCase(eventClassification[1]),
                         toLowerCase(searchClassification[1])))

matchesClassification(eventClassification, searchClassification) ==
    IF Falsy(searchClassification) THEN JsNull
    ELSE IF Falsy(eventClassification) THEN JsFalse
    ELSE JsBool(toLowerCase(eventClassification[1]) = toLowerCase(searchClassification[1]))

\* variant of matchesCity with a slip: containment tested in one direction only
matchesCity_OneDirection(eventCity, searchCity) ==
    IF Falsy(searchCity) THEN JsNull
    ELSE IF Falsy(eventCity) THEN JsFalse
    ELSE JsBool(includes(toLowerCase(eventCity[1]), toLowerCase(searchCity[1])))

matchesCity(eventCity, searchCity) ==
    IF Falsy(searchCity) THEN JsNull
    ELSE IF Falsy(eventCity) THEN JsFalse
    ELSE LET eventCityLower == toLowerCase(eventCity[1])
             searchCityLower == toLowerCase(searchCity[1])
         IN  JsBool(includes(eventCityLower, searchCityLower)
                    \/ includes(searchCityLower, eventCityLower))

\* variant of calculateRelevanceFactors with a slip: the city and classification
\* criteria handed to the wrong evaluators
calculateRelevanceFactors_Swapped(event, searchCriteria, position) ==
    [position |-> position,
     hasKeywordMatch |-> hasKeywordMatch(event.name, searchCriteria.keyword),
     matchesClassification |->
         matchesClassification(event.classification, searchCriteria.city),
     matchesCity |-> matchesCity(event.city, searchCriteria.classificationName)]

calculateRelevanceFactors(event, searchCriteria, position) ==
    [position |-> position,
     hasKeywordMatch |-> hasKeywordMatch(event.name, searchCriteria.keyword),
     matchesClassification |->
         matchesClassification(event.classification, searchCriteria.classificationName),
     matchesCity |-> matchesCity(event.city, searchCriteria.city)]

\* variants of calculateRelevanceScore with a slip.  ScoreWith is the shape of
\* the function with its constants and tests left open.
ScoreWith(factors, lastBonusPosition, counts(_), classificationStep(_), cap) ==
    LET base == 20
        afterPosition == IF factors.position <= lastBonusPosition
                         THEN base + (10 - factors.position) * 2
                         ELSE base
        afterKeyword == IF counts(factors.hasKeywordMatch)
                        THEN afterPosition + 30 ELSE afterPosition
        afterClassification == IF counts(factors.matchesClassification)
                               THEN classificationStep(afterKeyword) ELSE afterKeyword
        afterCity == IF counts(factors.matchesCity)
                     THEN afterClassification + 25 ELSE afterClassification
    IN  IF cap THEN Min(afterCity, 100) ELSE afterCity

IsTrue(v) == v = JsTrue
IsNotFalse(v) == v # JsFalse
Add25(x) == x + 25
Set25(x) == 25

\* the position test off by one: position 11 still takes the bonus branch
calculateRelevanceScore_BonusTo11(factors) == ScoreWith(factors, 11, IsTrue, Add25, TRUE)
\* the final cap left out
calculateRelevanceScore_NoCap(factors) == ScoreWith(factors, 10, IsTrue, Add25, FALSE)
\* a test against false instead of a test for true
calculateRelevanceScore_NotFalse(factors) == ScoreWith(factors, 10, IsNotFalse, Add25, TRUE)
\* the classification bonus assigned instead of added
calculateRelevanceScore_Assign(factors) == ScoreWith(factors, 10, IsTrue, Set25, TRUE)

calculateRelevanceScore(factors) ==
    LET base == 20
        afterPosition == IF factors.position <= 10
                         THEN base + (10 - factors.position) * 2
                         ELSE base
        afterKeyword == IF factors.hasKeywordMatch = JsTrue
                        THEN afterPosition + 30 ELSE afterPosition
        afterClassification == IF factors.matchesClassification = JsTrue
                               THEN afterKeyword + 25 ELSE afterKeyword
        afterCity == IF factors.matchesCity = JsTrue
                     THEN afterClassification + 25 ELSE afterClassification
    IN  Min(afterCity, 100)

(***************************************************************************)
(* The caller: one call at a time, its arguments and result kept in the    *)
(* state until the caller returns.                                         *)
(***************************************************************************)
PureInit ==
    /\ op = "none"
    /\ args = <<>>
    /\ result = <<>>

CallHasKeywordMatch ==
    /\ op = "none"
    /\ \E eventName \in EvaluatorArgs, keyword \in EvaluatorArgs :
          /\ op' = "hasKeywordMatch"
          /\ args' = [event |-> eventName, search |-> keyword]
          /\ result' = hasKeywordMatch(eventName, keyword)
    /\ UNCHANGED <<serverVars, storageVars, appVars, historyVars, flowVars, cacheVars, resultsVars>>

CallMatchesClassification ==
    /\ op = "none"
    /\ \E eventClassification \in EvaluatorArgs, searchClassification \in EvaluatorArgs :
          /\ op' = "matchesClassification"
          /\ args' = [event |-> eventClassification, search |-> searchClassification]
          /\ result' = matchesClassification(eventClassification, searchClassification)
    /\ UNCHANGED <<serverVars, storageVars, appVars, historyVars, flowVars, cacheVars, resultsVars>>

CallMatchesCity ==
    /\ op = "none"
    /\ \E eventCity \in EvaluatorArgs, searchCity \in EvaluatorArgs :
          /\ op' = "matchesCity"
          /\ args' = [event |-> eventCity, search |-> searchCity]
          /\ result' = matchesCity(eventCity, searchCity)
    /\ UNCHANGED <<serverVars, storageVars, appVars, historyVars, flowVars, cacheVars, resultsVars>>

CallCalculateRelevanceFactors ==
    /\ op = "none"
    /\ \E event \in EventDatas, searchCriteria \in SearchCriterias, position \in FactorPositions :
          /\ op' = "calculateRelevanceFactors"
          /\ args' = [event |-> event, searchCriteria |-> searchCriteria, position |-> position]
          /\ result' = calculateRelevanceFactors(event, searchCriteria, position)
    /\ UNCHANGED <<serverVars, storageVars, appVars, historyVars, flowVars, cacheVars, resultsVars>>

CallCalculateRelevanceScore ==
    /\ op = "none"
    /\ \E factors \in RelevanceFactorsSet :
          /\ op' = "calculateRelevanceScore"
          /\ args' = factors
          /\ result' = calculateRelevanceScore(factors)
    /\ UNCHANGED <<serverVars, storageVars, appVars, historyVars, flowVars, cacheVars, resultsVars>>

Return ==
    /\ op # "none"
    /\ op' = "none"
    /\ args' = <<>>
    /\ result' = <<>>
    /\ UNCHANGED <<serverVars, storageVars, appVars, historyVars, flowVars, cacheVars, resultsVars>>

(***************************************************************************)
(* server.ts: POST /api/events/search.                                     *)
(*                                                                         *)
(* An upstream record is kept as the three fields the relevance factors    *)
(* read: its name, the name of the city of its first venue and the name of *)
(* the segment of its first classification.  The fields the handler copies *)
(* through untouched (id, url, image, date, ...) are left out.             *)
(***************************************************************************)
\* most events in one upstream answer
MaxEvents == 2

RawNames == {Some(<<>>), Some(<<"A", "b">>)}
RawCities == {undefined, Some(<<"a">>), Some(<<"b">>)}
RawClassifications == {undefined, Some(<<"a">>)}
RawEvents == [name : RawNames, city : RawCities, classification : RawClassifications]
RawEventLists == UNION {[1..n -> RawEvents] : n \in 0..MaxEvents}

CriterionValues == {undefined, Some(<<>>), Some(<<"a">>)}
RequestCriterias ==
    [keyword : CriterionValues, city : CriterionValues, classificationName : CriterionValues]

\* status codes an upstream error response carries
UpstreamErrorStatuses == {401, 429, 500}

\* relevanceFactors as the handler computes them inline, index 0-based
InlineRelevanceFactors(event, index, criteria) ==
    [position |-> index + 1,
     hasKeywordMatch |->
         IF Falsy(criteria.keyword) THEN JsNull
         ELSE JsBool(includes(toLowerCase(event.name[1]), toLowerCase(criteria.keyword[1]))),
     matchesClassification |->
         IF Falsy(criteria.classificationName) THEN JsNull
         ELSE \* undefined === string is false
              IF event.classification = undefined THEN JsFalse
              ELSE JsBool(toLowerCase(event.classification[1])
                          = toLowerCase(criteria.classificationName[1])),
     matchesCity |->
         IF Falsy(criteria.city) THEN JsNull
         ELSE LET cityLower == toLowerCase(criteria.city[1])
                  \* name?.toLowerCase().includes(...): undefined when the name is
                  \* missing, and undefined is falsy
                  first == IF event.city = undefined THEN FALSE
                           ELSE includes(toLowerCase(event.city[1]), cityLower)
                  \* name?.toLowerCase() || '': a missing or empty name gives ''
                  eventOrEmpty == IF Falsy(event.city) THEN <<>>
                                  ELSE toLowerCase(event.city[1])
                  second == includes(cityLower, eventOrEmpty)
              IN  JsBool(first \/ second)]

TransformEvent(event, index, criteria) ==
    [name |-> event.name,
     city |-> event.city,
     classification |-> event.classification,
     relevanceFactors |-> InlineRelevanceFactors(event, index, criteria)]

\* variant of TransformEvents with a slip: the 0-based index used as the position
TransformEvents_ZeroBased(rawEvents, criteria) ==
    [i \in 1..Len(rawEvents) |->
        [TransformEvent(rawEvents[i], i - 1, criteria) EXCEPT !.relevanceFactors.position = i - 1]]

\* events.map((event, index) => ...)
TransformEvents(rawEvents, criteria) ==
    [i \in 1..Len(rawEvents) |-> TransformEvent(rawEvents[i], i - 1, criteria)]

NoResponse == [status |-> 0, error |-> "", events |-> <<>>]

\* what the catch block is handed: an axios error carries the request once
\* it was sent and the response once one came; anything else thrown in the
\* handler carries neither
NoCause == [kind |-> "none", response |-> undefined, request |-> FALSE]
Succeeded == [kind |-> "success", response |-> undefined, request |-> FALSE]
ErrorWithResponse(status) == [kind |-> "error", response |-> Some(status), request |-> TRUE]
ErrorWithoutResponse == [kind |-> "error", response |-> undefined, request |-> TRUE]
OtherError == [kind |-> "error", response |-> undefined, request |-> FALSE]

\* variant of CatchResponse with a slip: error.request is tested first
CatchResponse_RequestFirst(caught) ==
    IF caught.request
    THEN [status |-> 503, error |-> "Service unavailable", events |-> <<>>]
    ELSE IF caught.response # undefined
    THEN [status |-> caught.response[1],
          error |-> "Failed to fetch events from Ticketmaster", events |-> <<>>]
    ELSE [status |-> 500, error |-> "Internal server error", events |-> <<>>]

\* the catch block of the handler
CatchResponse(caught) ==
    IF caught.response # undefined
    THEN [status |-> caught.response[1],
          error |-> "Failed to fetch events from Ticketmaster", events |-> <<>>]
    ELSE IF caught.request
    THEN [status |-> 503, error |-> "Service unavailable", events |-> <<>>]
    ELSE [status |-> 500, error |-> "Internal server error", events |-> <<>>]

ServerInit ==
    /\ srvPc = "idle"
    /\ srvCriteria = [keyword |-> undefined, city |-> undefined, classificationName |-> undefined]
    /\ srvUpstream = <<>>
    /\ srvResponse = NoResponse
    /\ srvCause = NoCause
    /\ srvSent = 0

\* the handler reads the body, builds the parameters and calls the upstream
ReceiveSearch ==
    /\ srvPc = "idle"
    /\ \E criteria \in RequestCriterias : srvCriteria' = criteria
    /\ srvPc' = "awaiting"
    /\ srvUpstream' = <<>>
    /\ srvResponse' = NoResponse
    /\ srvCause' = NoCause
    /\ srvSent' = 0
    /\ UNCHANGED <<pureVars, storageVars, appVars, historyVars, flowVars, cacheVars, resultsVars>>

\* the upstream answers 2xx: response.data._embedded?.events || []
UpstreamSuccess ==
    /\ srvPc = "awaiting"
    /\ \E rawEvents \in RawEventLists :
          /\ srvUpstream' = rawEvents
          /\ srvResponse' = [status |-> 200, error |-> "",
                             events |-> TransformEvents(rawEvents, srvCriteria)]
    /\ srvCause' = Succeeded
    /\ srvSent' = srvSent + 1
    /\ srvPc' = "responded"
    /\ UNCHANGED <<srvCriteria, pureVars, storageVars, appVars, historyVars, flowVars, cacheVars, resultsVars>>

\* the upstream answers with an error status: error.response is set
UpstreamErrorResponse ==
    /\ srvPc = "awaiting"
    /\ \E status \in UpstreamErrorStatuses :
          /\ srvCause' = ErrorWithResponse(status)
          /\ srvResponse' = CatchResponse(ErrorWithResponse(status))
    /\ srvSent' = srvSent + 1
    /\ srvPc' = "responded"
    /\ UNCHANGED <<srvCriteria, srvUpstream, pureVars, storageVars, appVars, historyVars, flowVars, cacheVars, resultsVars>>

\* the request was sent and nothing came back: error.request is set
UpstreamNoResponse ==
    /\ srvPc = "awaiting"
    /\ srvCause' = ErrorWithoutResponse
    /\ srvResponse' = CatchResponse(ErrorWithoutResponse)
    /\ srvSent' = srvSent + 1
    /\ srvPc' = "responded"
    /\ UNCHANGED <<srvCriteria, srvUpstream, pureVars, storageVars, appVars, historyVars, flowVars, cacheVars, resultsVars>>

\* any other failure: neither error.response nor error.request
OtherFailure ==
    /\ srvPc = "awaiting"
    /\ srvCause' = OtherError
    /\ srvResponse' = CatchResponse(OtherError)
    /\ srvSent' = srvSent + 1
    /\ srvPc' = "responded"
    /\ UNCHANGED <<srvCriteria, srvUpstream, pureVars, storageVars, appVars, historyVars, flowVars, cacheVars, resultsVars>>

\* the response has been sent and the handler's locals are gone; the server
\* takes the next request
FinishRequest ==
    /\ srvPc = "responded"
    /\ srvPc' = "idle"
    /\ srvCriteria' = [keyword |-> undefined, city |-> undefined, classificationName |-> undefined]
    /\ srvUpstream' = <<>>
    /\ srvResponse' = NoResponse
    /\ srvCause' = NoCause
    /\ srvSent' = 0
    /\ UNCHANGED <<pureVars, storageVars, appVars, historyVars, flowVars, cacheVars, resultsVars>>

(***************************************************************************)
(* storage.ts: answers and app state kept in one localStorage item.        *)
(*                                                                         *)
(* Encoding: null and undefined objects are <<>>, a present object x is    *)
(* <<x>>.  An answers object is a function from its keys to strings.  The  *)
(* text of the item is a record: either garbage (text that is not JSON) or *)
(* the members of a JSON object, in order, as <<key, value>> pairs.  The   *)
(* values written here (strings, numbers, null, arrays and objects of      *)
(* these) are kept by JSON as they are; a member whose value is undefined  *)
(* is left out of the text.                                                *)
(***************************************************************************)
\* most events in a search result held by the App
MaxStoredEvents == 2

null == <<>>

Stages == {"search", "loading", "results", "no-results"}

AnswersObjects ==
    UNION {[K -> {"Boston, MA", "New York, NY"}] : K \in SUBSET {"location"}}
    \cup {[k \in {"eventType"} |-> "Music"]}
    \cup {[k \in {"location", "eventType"} |->
              IF k = "location" THEN l ELSE "Music"] : l \in {"Boston, MA", "New York, NY"}}

ClientEvent(id, name, position) ==
    [id |-> id, name |-> name,
     relevanceFactors |-> [position |-> position, hasKeywordMatch |-> JsNull,
                           matchesClassification |-> JsNull, matchesCity |-> JsNull]]
ClientEvents == {ClientEvent("1", "Concert", 1), ClientEvent("2", "Game", 2)}
ClientEventLists == UNION {[1..n -> ClientEvents] : n \in 0..MaxStoredEvents}

SearchParamsSet ==
    {[location |-> "New York, NY", dateRange |-> "next-month", eventType |-> "Music"],
     [location |-> "Smalltown, USA", dateRange |-> "today", eventType |-> ""]}

AppStates == [stage : Stages, events : ClientEventLists,
              lastSearchParams : Optional(SearchParamsSet),
              answers : Optional(AnswersObjects)]

Absent == <<>>
Garbage == [kind |-> "garbage", members |-> <<>>]

\* outcome of a call: a returned value or a thrown exception
Returned(v) == [threw |-> FALSE, value |-> v]
Thrown == [threw |-> TRUE, value |-> null]

\* JSON.stringify of an AppState: members with an undefined value are left out
JSON_stringify(appState) ==
    [kind |-> "json",
     members |-> <<<<"stage", appState.stage>>, <<"events", appState.events>>,
                   <<"lastSearchParams", appState.lastSearchParams>>>>
                 \o (IF appState.answers = undefined THEN <<>>
                     ELSE <<<<"answers", appState.answers>>>>)]

\* the value of member key of a parsed object, undefined when there is none
Member(members, key) ==
    IF \E i \in 1..Len(members) : members[i][1] = key
    THEN (CHOOSE m \in {members[i] : i \in 1..Len(members)} : m[1] = key)[2]
    ELSE undefined

\* JSON.parse: throws on text that is not JSON
JSON_parse(text) ==
    IF text.kind = "garbage" THEN Thrown
    ELSE Returned(Some([stage |-> Member(text.members, "stage"),
                        events |-> Member(text.members, "events"),
                        lastSearchParams |-> Member(text.members, "lastSearchParams"),
                        answers |-> Member(text.members, "answers")]))

\* variant of loadAppState with a slip: no try/catch around JSON.parse
loadAppState_NoCatch(item) ==
    IF item = Absent THEN Returned(null) ELSE JSON_parse(item[1])

loadAppState(item) ==
    IF item = Absent THEN Returned(null)
    ELSE LET parsed == JSON_parse(item[1])
         IN  IF parsed.threw THEN Returned(null) ELSE parsed

\* variant of saveAppState with a slip: a state without events is not written
saveAppState_SkipNoEvents(item, appState) ==
    IF appState.events = <<>> THEN item ELSE Some(JSON_stringify(appState))

\* the item after saveAppState(appState)
saveAppState(item, appState) == Some(JSON_stringify(appState))

\* the item after clearAppState()
clearAppState(item) == Absent

\* variant of saveAnswers with a slip: the new answers merged into the stored ones
saveAnswers_Merge(item, answers) ==
    LET currentState == loadAppState(item)
        old == IF currentState.value = null \/ currentState.value[1].answers = undefined
               THEN answers ELSE currentState.value[1].answers[1]
        merged == [k \in DOMAIN old \cup DOMAIN answers |->
                      IF k \in DOMAIN answers THEN answers[k] ELSE old[k]]
    IN  Some(JSON_stringify(
            [stage |-> IF currentState.value = null THEN "search"
                       ELSE currentState.value[1].stage,
             events |-> IF currentState.value = null THEN <<>>
                        ELSE currentState.value[1].events,
             lastSearchParams |-> IF currentState.value = null THEN null
                                  ELSE currentState.value[1].lastSearchParams,
             answers |-> Some(merged)]))

\* the item after saveAnswers(answers); a throw inside is caught and nothing
\* is written
saveAnswers(item, answers) ==
    LET currentState == loadAppState(item)
    IN  IF currentState.threw THEN item
        ELSE Some(JSON_stringify(
            [stage |-> IF currentState.value = null THEN "search"
                       ELSE currentState.value[1].stage,
             events |-> IF currentState.value = null THEN <<>>
                        ELSE currentState.value[1].events,
             lastSearchParams |-> IF currentState.value = null THEN null
                                  ELSE currentState.value[1].lastSearchParams,
             answers |-> Some(answers)]))

\* loadAnswers(): state?.answers || null, null when anything throws
loadAnswers(item) ==
    LET state == loadAppState(item)
    IN  IF state.threw THEN Returned(null)
        ELSE IF state.value = null THEN Returned(null)
        ELSE IF state.value[1].answers = undefined THEN Returned(null)
        ELSE Returned(state.value[1].answers)

\* the item after clearAnswers()
clearAnswers(item) ==
    LET currentState == loadAppState(item)
    IN  IF currentState.threw \/ currentState.value = null THEN item
        ELSE Some(JSON_stringify([currentState.value[1] EXCEPT !.answers = undefined]))

\* variant of hasSavedAnswers with a slip: the keys are not counted
hasSavedAnswers_NotNull(item) == loadAnswers(item).value # null

\* hasSavedAnswers(): answers !== null && Object.keys(answers).length > 0
hasSavedAnswers(item) ==
    LET answers == loadAnswers(item).value
    IN  answers # null /\ Cardinality(DOMAIN answers[1]) > 0

StorageInit ==
    /\ stored = Absent
    /\ lastWrite = "none"
    /\ lastArg = <<>>

CallSaveAnswers ==
    \E answers \in AnswersObjects :
        /\ stored' = saveAnswers(stored, answers)
        /\ lastWrite' = "saveAnswers"
        /\ lastArg' = answers
        /\ UNCHANGED <<pureVars, serverVars, appVars, historyVars, flowVars, cacheVars, resultsVars>>

CallClearAnswers ==
    /\ stored' = clearAnswers(stored)
    /\ lastWrite' = "clearAnswers"
    /\ lastArg' = <<>>
    /\ UNCHANGED <<pureVars, serverVars, appVars, historyVars, flowVars, cacheVars, resultsVars>>

CallSaveAppState ==
    \E appState \in AppStates :
        /\ stored' = saveAppState(stored, appState)
        /\ lastWrite' = "saveAppState"
        /\ lastArg' = appState
        /\ UNCHANGED <<pureVars, serverVars, appVars, historyVars, flowVars, cacheVars, resultsVars>>

CallClearAppState ==
    /\ stored' = clearAppState(stored)
    /\ lastWrite' = "clearAppState"
    /\ lastArg' = <<>>
    /\ UNCHANGED <<pureVars, serverVars, appVars, historyVars, flowVars, cacheVars, resultsVars>>

\* something other than these functions leaves text that is not JSON under
\* the key, as in localStorage.setItem(key, 'invalid-json{')
CorruptItem ==
    /\ stored' = Some(Garbage)
    /\ lastWrite' = "corrupt"
    /\ lastArg' = <<>>
    /\ UNCHANGED <<pureVars, serverVars, appVars, historyVars, flowVars, cacheVars, resultsVars>>

(***************************************************************************)
(* App.tsx: the stage machine of the App component and the effect that     *)
(* persists it.  Every action below is one handler step followed by the    *)
(* effect React runs after the render it causes.                           *)
(***************************************************************************)
ErrorMessages == {"Network Error"}

\* the useState initial values of a mounting App, or a crash when
\* loadAppState throws into the render
AppInitialState(item) ==
    LET savedState == loadAppState(item)
    IN  IF savedState.threw
        THEN [crashed |-> TRUE, stage |-> "search", events |-> <<>>,
              error |-> null, lastSearchParams |-> null]
        ELSE IF savedState.value = null
        THEN [crashed |-> FALSE, stage |-> "search", events |-> <<>>,
              error |-> null, lastSearchParams |-> null]
        ELSE [crashed |-> FALSE,
              stage |-> IF savedState.value[1].stage \in Stages
                        THEN savedState.value[1].stage ELSE "search",
              events |-> savedState.value[1].events,
              error |-> null,
              lastSearchParams |-> savedState.value[1].lastSearchParams]

\* variant of the effect with a slip: nothing is cleared at stage 'search'
PersistEffect_NoClear(item, st, evs, params) ==
    IF st \in {"results", "no-results"}
    THEN saveAppState(item, [stage |-> st, events |-> evs, lastSearchParams |-> params,
                             answers |-> IF loadAppState(item).value = null THEN undefined
                                         ELSE loadAppState(item).value[1].answers])
    ELSE item

\* the item after the useEffect on [stage, events, lastSearchParams]
PersistEffect(item, st, evs, params) ==
    IF st \in {"results", "no-results"}
    THEN saveAppState(item, [stage |-> st, events |-> evs, lastSearchParams |-> params,
                             answers |-> IF loadAppState(item).value = null THEN undefined
                                         ELSE loadAppState(item).value[1].answers])
    ELSE IF st = "search" THEN clearAppState(item)
    ELSE item

\* the history variables after that effect
EffectWrite(st) ==
    IF st \in {"results", "no-results"} THEN "saveAppState"
    ELSE IF st = "search" THEN "clearAppState"
    ELSE lastWrite
EffectArg(item, st, evs, params) ==
    IF st \in {"results", "no-results"}
    THEN [stage |-> st, events |-> evs, lastSearchParams |-> params,
          answers |-> IF loadAppState(item).value = null THEN undefined
                      ELSE loadAppState(item).value[1].answers]
    ELSE IF st = "search" THEN <<>>
    ELSE lastArg

\* variant of RunEffect with a slip: the state is saved at every stage
RunEffect_SavesEveryStage ==
    /\ stored' = saveAppState(stored,
                      [stage |-> stage', events |-> events',
                       lastSearchParams |-> lastSearchParams',
                       answers |-> IF loadAppState(stored).value = null THEN undefined
                                   ELSE loadAppState(stored).value[1].answers])
    /\ lastWrite' = "saveAppState"
    /\ lastArg' = <<>>

RunEffect ==
    /\ stored' = PersistEffect(stored, stage', events', lastSearchParams')
    /\ lastWrite' = EffectWrite(stage')
    /\ lastArg' = EffectArg(stored, stage', events', lastSearchParams')

\* outcomes of eventApi.searchEvents
NoOutcome == [kind |-> "none", events |-> <<>>]
Resolved(found) == [kind |-> "events", events |-> found]
Rejected == [kind |-> "failure", events |-> <<>>]

\* the App mounted on an empty localStorage
AppInit ==
    /\ stage = "search"
    /\ events = <<>>
    /\ error = null
    /\ lastSearchParams = null
    /\ inFlight = 0
    /\ appLast = "mount"
    /\ lastResponse = NoOutcome

\* the page is loaded again: a new App mounts from the stored item
Reload ==
    LET initial == AppInitialState(stored)
    IN  /\ ~initial.crashed
        /\ stage' = initial.stage
        /\ events' = initial.events
        /\ error' = initial.error
        /\ lastSearchParams' = initial.lastSearchParams
        /\ inFlight' = 0
        /\ appLast' = "mount"
        /\ UNCHANGED lastResponse
        /\ RunEffect
        /\ UNCHANGED <<pureVars, serverVars, historyVars, flowVars, cacheVars, resultsVars>>

\* variant of HandleSearch with a slip: the form is also there while loading
HandleSearch_WhileLoading ==
    \E params \in SearchParamsSet :
        /\ stage \in {"search", "loading"}
        /\ inFlight < 2
        /\ stage' = "loading"
        /\ error' = null
        /\ lastSearchParams' = Some(params)
        /\ inFlight' = inFlight + 1
        /\ appLast' = "search"
        /\ UNCHANGED <<events, lastResponse>>
        /\ RunEffect
        /\ UNCHANGED <<pureVars, serverVars, historyVars, flowVars, cacheVars, resultsVars>>

\* handleSearch up to its await; the form that calls it is rendered at stage
\* 'search' only
HandleSearch ==
    \E params \in SearchParamsSet :
        /\ stage = "search"
        /\ stage' = "loading"
        /\ error' = null
        /\ lastSearchParams' = Some(params)
        /\ inFlight' = inFlight + 1
        /\ appLast' = "search"
        /\ UNCHANGED <<events, lastResponse>>
        /\ RunEffect
        /\ UNCHANGED <<pureVars, serverVars, historyVars, flowVars, cacheVars, resultsVars>>

\* handleSearch after the await: a response with events
SearchSuccess ==
    \E found \in ClientEventLists \ {<<>>} :
        /\ inFlight > 0
        /\ events' = found
        /\ stage' = "results"
        /\ inFlight' = inFlight - 1
        /\ appLast' = "success"
        /\ lastResponse' = Resolved(found)
        /\ UNCHANGED <<error, lastSearchParams>>
        /\ RunEffect
        /\ UNCHANGED <<pureVars, serverVars, historyVars, flowVars, cacheVars, resultsVars>>

\* handleSearch after the await: a response without events
SearchEmpty ==
    /\ inFlight > 0
    /\ stage' = "no-results"
    /\ inFlight' = inFlight - 1
    /\ appLast' = "empty"
    /\ lastResponse' = Resolved(<<>>)
    /\ UNCHANGED <<events, error, lastSearchParams>>
    /\ RunEffect
    /\ UNCHANGED <<pureVars, serverVars, historyVars, flowVars, cacheVars, resultsVars>>

\* handleSearch after the await: the request failed
SearchFailure ==
    \E message \in ErrorMessages :
        /\ inFlight > 0
        /\ error' = Some(message)
        /\ stage' = "search"
        /\ inFlight' = inFlight - 1
        /\ appLast' = "failure"
        /\ lastResponse' = Rejected
        /\ UNCHANGED <<events, lastSearchParams>>
        /\ RunEffect
        /\ UNCHANGED <<pureVars, serverVars, historyVars, flowVars, cacheVars, resultsVars>>

HandleStartOver ==
    /\ stage \in {"results", "no-results"}
    /\ stage' = "search"
    /\ error' = null
    /\ appLast' = "startOver"
    /\ UNCHANGED <<events, lastSearchParams, inFlight, lastResponse>>
    /\ RunEffect
    /\ UNCHANGED <<pureVars, serverVars, historyVars, flowVars, cacheVars, resultsVars>>

\* the close button of the error banner; no dependency of the effect changes
DismissError ==
    /\ error # null
    /\ error' = null
    /\ appLast' = "dismiss"
    /\ UNCHANGED <<stage, events, lastSearchParams, inFlight, lastResponse>>
    /\ UNCHANGED <<pureVars, serverVars, storageVars, historyVars, flowVars, cacheVars, resultsVars>>

(***************************************************************************)
(* Search history (src/unnamed/part_002): a list of searches, newest       *)
(* first, in a localStorage item of its own.                               *)
(***************************************************************************)
\* calls of addToSearchHistory in a behaviour
MaxAdds == 11

\* entries kept by .slice(0, 10)
HistoryLimit == 10

\* JSON.stringify of a history array
HistoryStringify(history) == [kind |-> "json", elements |-> history]

\* JSON.parse of the text of the item
HistoryParse(text) ==
    IF text.kind = "garbage" THEN Thrown ELSE Returned(text.elements)

\* getSearchHistory(): the parsed array, [] for a missing item or on a throw
getSearchHistory(item) ==
    IF item = Absent THEN <<>>
    ELSE LET parsed == HistoryParse(item[1])
         IN  IF parsed.threw THEN <<>> ELSE parsed.value

\* variant of addToSearchHistory with a slip: the new entry goes last
addToSearchHistory_Append(item, searchParams, timestamp) ==
    LET history == getSearchHistory(item)
        newEntry == [params |-> searchParams, timestamp |-> timestamp]
        all == history \o <<newEntry>>
        updatedHistory == SubSeq(all, 1, Min(Len(all), HistoryLimit))
    IN  Some(HistoryStringify(updatedHistory))

\* the item after addToSearchHistory(searchParams) at the given clock reading
addToSearchHistory(item, searchParams, timestamp) ==
    LET history == getSearchHistory(item)
        newEntry == [params |-> searchParams, timestamp |-> timestamp]
        all == <<newEntry>> \o history
        updatedHistory == SubSeq(all, 1, Min(Len(all), HistoryLimit))
    IN  Some(HistoryStringify(updatedHistory))

\* the item after clearSearchHistory()
clearSearchHistory(item) == Absent

HistoryInit ==
    /\ storedHistory = Absent
    /\ now = 0
    /\ added = <<>>

CallAddToSearchHistory ==
    \E searchParams \in SearchParamsSet :
        /\ now < MaxAdds
        /\ storedHistory' = addToSearchHistory(storedHistory, searchParams, now + 1)
        /\ now' = now + 1
        /\ added' = Append(added, [params |-> searchParams, timestamp |-> now + 1])
        /\ UNCHANGED <<pureVars, serverVars, storageVars, appVars, flowVars, cacheVars, resultsVars>>

CallClearSearchHistory ==
    /\ storedHistory' = clearSearchHistory(storedHistory)
    /\ added' = <<>>
    /\ UNCHANGED now
    /\ UNCHANGED <<pureVars, serverVars, storageVars, appVars, flowVars, cacheVars, resultsVars>>

(***************************************************************************)
(* questions.ts: the question configuration and validateAnswers.           *)
(*                                                                         *)
(* An answers object is a record of the three answers that validation and  *)
(* visibility read, each undefined or present: location is a string of     *)
(* blanks and letters, eventType one of the option values or '', keywords  *)
(* is kept as its length only.  The other answers are undefined.           *)
(***************************************************************************)
\* longest keywords passing the validation
KeywordsLimit == 100

LocationStrings == UNION {[1..n -> {" ", "a"}] : n \in 0..MaxLen}
EventTypeValues == {"", "Music", "Sports"}
KeywordsLengths == {0, 1, KeywordsLimit, KeywordsLimit + 1}

ValidatedAnswers == [location : Optional(LocationStrings),
                     eventType : Optional(EventTypeValues),
                     keywords : Optional(KeywordsLengths)]

\* the questions array, in order
QuestionIds == <<"location", "dateRange", "eventType", "musicGenre", "sportType", "keywords">>

\* required: false on every question
Required(id) == FALSE

\* String.prototype.trim on a string of blanks and letters
trim(s) ==
    LET letters == {i \in 1..Len(s) : s[i] # " "}
    IN  IF letters = {} THEN <<>>
        ELSE SubSeq(s, CHOOSE i \in letters : \A j \in letters : i <= j,
                       CHOOSE i \in letters : \A j \in letters : j <= i)

\* answers[question.id]
AnswerValue(answers, id) ==
    IF id \in DOMAIN answers THEN answers[id] ELSE undefined

\* !value for an answer of the question id
FalsyAnswer(id, value) ==
    \/ value = undefined
    \/ id = "location" /\ value[1] = <<>>
    \/ id = "keywords" /\ value[1] = 0
    \/ id \notin {"location", "keywords"} /\ value[1] = ""

\* typeof value === 'string' && value.trim().length === 0
BlankString(id, value) ==
    /\ value # undefined
    /\ \/ id = "location" /\ Len(trim(value[1])) = 0
       \/ id = "keywords" /\ value[1] = 0
       \/ id \notin {"location", "keywords"} /\ value[1] = ""

\* question.showIf(answers), true for a question without showIf
showIf(id, answers) ==
    IF id = "musicGenre" THEN answers.eventType = Some("Music")
    ELSE IF id = "sportType" THEN answers.eventType = Some("Sports")
    ELSE TRUE

\* getVisibleQuestions(answers): positions in the questions array
getVisibleQuestions(answers) ==
    {i \in 1..Len(QuestionIds) : showIf(QuestionIds[i], answers)}

HasValidation(id) == id \in {"location", "keywords"}

\* question.validation(value): an error message or null
validation(id, value) ==
    IF id = "location"
    THEN IF FalsyAnswer(id, value) \/ Len(trim(value[1])) = 0
         THEN Some("Please enter a location")
         ELSE IF Len(trim(value[1])) < 2
         THEN Some("Location must be at least 2 characters")
         ELSE null
    ELSE IF ~FalsyAnswer(id, value) /\ value[1] > KeywordsLimit
         THEN Some("Keywords must be less than 100 characters")
         ELSE null

\* the error validateAnswers records for one visible question, or null
QuestionError(id, value) ==
    IF Required(id) /\ (FalsyAnswer(id, value) \/ BlankString(id, value))
    THEN Some("This field is required")
    ELSE IF HasValidation(id) /\ ~FalsyAnswer(id, value)
    THEN validation(id, value)
    ELSE null

\* validateAnswers(answers): the errors object, from question id to message
validateAnswers(answers) ==
    LET failing == {QuestionIds[i] : i \in
                       {j \in getVisibleQuestions(answers) :
                           QuestionError(QuestionIds[j],
                                         AnswerValue(answers, QuestionIds[j])) # null}}
    IN  [id \in failing |-> QuestionError(id, AnswerValue(answers, id))[1]]

CallValidateAnswers ==
    /\ op = "none"
    /\ \E answers \in ValidatedAnswers :
          /\ op' = "validateAnswers"
          /\ args' = answers
          /\ result' = validateAnswers(answers)
    /\ UNCHANGED <<serverVars, storageVars, appVars, historyVars, flowVars, cacheVars, resultsVars>>

(***************************************************************************)
(* QuestionFlow (src/unnamed/part_000): the multi-step form.               *)
(*                                                                         *)
(* The answers object is a function from the ids answered so far to their  *)
(* values: the location text, the eventType option, the length of the      *)
(* keywords.  The user of the model types one of a few location texts,     *)
(* picks Music or Sports, types short or too long keywords, and leaves the *)
(* other select questions unanswered.  The errors object is kept as the    *)
(* message under 'location' and under 'keywords', '' for none: it is read  *)
(* by truthiness only and no other question ever gets a message.  Every    *)
(* action is a handler followed by the effects of the render it causes.    *)
(***************************************************************************)
\* city requests in flight at a time
MaxFetches == 2

FlowTexts == {<<>>, <<"a">>, <<"a", "a">>, <<"a", "a", "a">>}
Cities == {[displayName |-> <<"a", "a", "a">>]}
CityLists == {<<>>} \cup {<<city>> : city \in Cities}
KeywordsInputs == {1, KeywordsLimit + 1}

EmptyAnswers == [id \in {} |-> ""]
NoErrors == [location |-> "", keywords |-> ""]

\* { ...object, [id]: value }
WithAnswer(object, id, value) ==
    [k \in DOMAIN object \cup {id} |-> IF k = id THEN value ELSE object[k]]

\* the answers as validateAnswers and getVisibleQuestions read them
AsValidated(object) ==
    [location |-> IF "location" \in DOMAIN object THEN Some(object["location"]) ELSE undefined,
     eventType |-> IF "eventType" \in DOMAIN object THEN Some(object["eventType"]) ELSE undefined,
     keywords |-> IF "keywords" \in DOMAIN object THEN Some(object["keywords"]) ELSE undefined]

\* question.type
QuestionType(id) ==
    IF id = "location" THEN "autocomplete"
    ELSE IF id = "keywords" THEN "text"
    ELSE "select"

\* visibleQuestions: the ids of getVisibleQuestions(answers), in order
VisibleIds(object) ==
    LET visible == getVisibleQuestions(AsValidated(object))
    IN  [k \in 1..Cardinality(visible) |->
            QuestionIds[CHOOSE p \in visible : Cardinality({q \in visible : q < p}) = k - 1]]

\* visibleQuestions[index].id
QuestionAt(object, index) == VisibleIds(object)[index + 1]

\* isLastQuestion
IsLast(object, index) == index = Len(VisibleIds(object)) - 1

\* '' as the value of the question id
EmptyValue(id) ==
    IF id = "location" THEN <<>> ELSE IF id = "keywords" THEN 0 ELSE ""

\* answers[currentQuestion?.id] || ''
CurrentValue(object, id) ==
    IF id \in DOMAIN object /\ ~FalsyAnswer(id, Some(object[id]))
    THEN object[id] ELSE EmptyValue(id)

\* validateAnswers({ [currentQuestion.id]: currentValue })
ValidateOne(id, value) ==
    validateAnswers([k \in {"location", "eventType", "keywords"} |->
                        IF k = id THEN Some(value) ELSE undefined])

\* an errors object of validateAnswers as the two messages kept
AsErrors(object) ==
    [k \in {"location", "keywords"} |-> IF k \in DOMAIN object THEN object[k] ELSE ""]

\* { ...errors, [id]: message }
WithError(object, id, message) ==
    IF id \in DOMAIN object THEN [object EXCEPT ![id] = message] ELSE object

\* visibleQuestions.findIndex((q) => !answers[q.id])
FirstUnanswered(object) ==
    LET ids == VisibleIds(object)
        unanswered == {i \in 1..Len(ids) :
                          ids[i] \notin DOMAIN object
                          \/ FalsyAnswer(ids[i], Some(object[ids[i]]))}
    IN  IF unanswered = {} THEN -1
        ELSE (CHOOSE i \in unanswered : \A j \in unanswered : i <= j) - 1

\* the effect on [currentValue, currentQuestion?.type], after the cleanup of
\* its last run has cleared the timer
SuggestEffect(id, value, justSelected, suggestions, shown) ==
    IF QuestionType(id) # "autocomplete"
    THEN [justSelected |-> justSelected, timer |-> null,
          suggestions |-> suggestions, shown |-> shown]
    ELSE IF justSelected
    THEN [justSelected |-> FALSE, timer |-> null,
          suggestions |-> suggestions, shown |-> shown]
    ELSE IF Len(value) < 2
    THEN [justSelected |-> justSelected, timer |-> null,
          suggestions |-> <<>>, shown |-> FALSE]
    ELSE [justSelected |-> justSelected, timer |-> Some(value),
          suggestions |-> suggestions, shown |-> shown]

\* the render after a handler: the new answers and index, the ref and the
\* suggestion state the handler left, and the effects that follow: the
\* suggestion effect when the current question or its value changed, and
\* saveAnswers when setAnswers was called with an object that has keys
Render(newAnswers, newIndex, justSelected, suggestions, shown, answersSet) ==
    LET oldId == QuestionAt(flowAnswers, currentQuestionIndex)
        newId == QuestionAt(newAnswers, newIndex)
        changed == IF oldId # newId THEN TRUE
                   ELSE CurrentValue(flowAnswers, oldId) # CurrentValue(newAnswers, newId)
        after == IF changed
                 THEN SuggestEffect(newId, CurrentValue(newAnswers, newId),
                                    justSelected, suggestions, shown)
                 ELSE [justSelected |-> justSelected, timer |-> timer,
                       suggestions |-> suggestions, shown |-> shown]
        saves == answersSet /\ DOMAIN newAnswers # {}
    IN  /\ flowAnswers' = newAnswers
        /\ currentQuestionIndex' = newIndex
        /\ cityJustSelected' = after.justSelected
        /\ timer' = after.timer
        /\ citySuggestions' = after.suggestions
        /\ showSuggestions' = after.shown
        /\ stored' = IF saves THEN saveAnswers(stored, newAnswers) ELSE stored
        /\ lastWrite' = IF saves THEN "saveAnswers" ELSE lastWrite
        /\ lastArg' = IF saves THEN newAnswers ELSE lastArg

\* clearAnswers() and onComplete(answersToSearchParams(answers)): the parent
\* leaves the form, which is unmounted with its timer; its requests in flight
\* come back to nothing
Complete ==
    /\ flowDone' = Some(flowAnswers)
    /\ stored' = clearAnswers(stored)
    /\ lastWrite' = "clearAnswers"
    /\ lastArg' = <<>>
    /\ timer' = null
    /\ fetches' = 0
    /\ UNCHANGED <<currentQuestionIndex, flowAnswers, flowErrors, citySuggestions,
                   showSuggestions, isLoadingSuggestions, showResumePrompt,
                   validatedCities, cityJustSelected, chosen>>

\* the form is on screen
Interactive == flowDone = null /\ ~showResumePrompt

\* a QuestionFlow mounted on an empty localStorage
FlowInit ==
    /\ currentQuestionIndex = 0
    /\ flowAnswers = EmptyAnswers
    /\ flowErrors = NoErrors
    /\ citySuggestions = <<>>
    /\ showSuggestions = FALSE
    /\ isLoadingSuggestions = FALSE
    /\ showResumePrompt = FALSE
    /\ validatedCities = {}
    /\ cityJustSelected = FALSE
    /\ timer = null
    /\ fetches = 0
    /\ flowDone = null
    /\ flowLast = "mount"
    /\ chosen = FALSE

\* the page is loaded again, or the form is shown again after a search: a
\* new QuestionFlow mounts from the stored answers and its effects run
Mount ==
    LET savedAnswers == loadAnswers(stored).value
        initial == IF savedAnswers = null THEN EmptyAnswers ELSE savedAnswers[1]
        first == QuestionAt(initial, 0)
        after == SuggestEffect(first, CurrentValue(initial, first), FALSE, <<>>, FALSE)
        saves == DOMAIN initial # {}
    IN  /\ flowAnswers' = initial
        /\ currentQuestionIndex' = 0
        /\ flowErrors' = NoErrors
        /\ isLoadingSuggestions' = FALSE
        /\ showResumePrompt' = hasSavedAnswers(stored)
        /\ validatedCities' = {}
        /\ cityJustSelected' = after.justSelected
        /\ timer' = after.timer
        /\ citySuggestions' = after.suggestions
        /\ showSuggestions' = after.shown
        /\ fetches' = 0
        /\ flowDone' = null
        /\ flowLast' = "mount"
        /\ chosen' = FALSE
        /\ stored' = IF saves THEN saveAnswers(stored, initial) ELSE stored
        /\ lastWrite' = IF saves THEN "saveAnswers" ELSE lastWrite
        /\ lastArg' = IF saves THEN initial ELSE lastArg
        /\ UNCHANGED <<pureVars, serverVars, appVars, historyVars, cacheVars, resultsVars>>

\* the values the user can give the question id that differ from its value
AnswerInputs(id, value) ==
    IF id = "location" THEN FlowTexts \ {value}
    ELSE IF id = "keywords" THEN KeywordsInputs \ {value}
    ELSE IF id = "eventType" THEN {"Music", "Sports"}
    ELSE {}

\* variant of HandleAnswer with a slip: typing leaves the validated set alone
HandleAnswer_KeepsValidated ==
    LET id == QuestionAt(flowAnswers, currentQuestionIndex)
    IN  /\ Interactive
        /\ \E value \in AnswerInputs(id, CurrentValue(flowAnswers, id)) :
              Render(WithAnswer(flowAnswers, id, value), currentQuestionIndex,
                     cityJustSelected, citySuggestions, showSuggestions, TRUE)
        /\ flowErrors' = WithError(flowErrors, id, "")
        /\ UNCHANGED validatedCities
        /\ chosen' = IF id = "location" THEN FALSE ELSE chosen
        /\ flowLast' = "answer"
        /\ UNCHANGED <<isLoadingSuggestions, showResumePrompt, fetches, flowDone>>
        /\ UNCHANGED <<pureVars, serverVars, appVars, historyVars, cacheVars, resultsVars>>

\* handleAnswer: typing in a text input or picking an option
HandleAnswer ==
    LET id == QuestionAt(flowAnswers, currentQuestionIndex)
    IN  /\ Interactive
        /\ \E value \in AnswerInputs(id, CurrentValue(flowAnswers, id)) :
              Render(WithAnswer(flowAnswers, id, value), currentQuestionIndex,
                     cityJustSelected, citySuggestions, showSuggestions, TRUE)
        /\ flowErrors' = WithError(flowErrors, id, "")
        /\ validatedCities' = IF id = "location" /\ QuestionType(id) = "autocomplete"
                              THEN validatedCities \ {"location"} ELSE validatedCities
        /\ chosen' = IF id = "location" THEN FALSE ELSE chosen
        /\ flowLast' = "answer"
        /\ UNCHANGED <<isLoadingSuggestions, showResumePrompt, fetches, flowDone>>
        /\ UNCHANGED <<pureVars, serverVars, appVars, historyVars, cacheVars, resultsVars>>

\* what handleNext comes to: "unselected", "invalid", "rejected", "complete"
\* or "advance"
NextOutcome(object, index, validated) ==
    LET id == QuestionAt(object, index)
    IN  IF id = "location" /\ QuestionType(id) = "autocomplete" /\ "location" \notin validated
        THEN "unselected"
        ELSE IF id \in DOMAIN ValidateOne(id, CurrentValue(object, id))
        THEN "invalid"
        ELSE IF IsLast(object, index)
        THEN IF DOMAIN validateAnswers(AsValidated(object)) # {}
             THEN "rejected" ELSE "complete"
        ELSE "advance"

\* handleNext, from the Next button or the Enter key
HandleNext ==
    LET id == QuestionAt(flowAnswers, currentQuestionIndex)
        outcome == NextOutcome(flowAnswers, currentQuestionIndex, validatedCities)
    IN  /\ Interactive
        /\ flowLast' = "next"
        /\ UNCHANGED <<isLoadingSuggestions, showResumePrompt, validatedCities, chosen>>
        /\ IF outcome = "complete"
           THEN /\ Complete
                /\ UNCHANGED <<flowErrors>>
           ELSE /\ UNCHANGED <<fetches, flowDone>>
                /\ Render(flowAnswers,
                          IF outcome = "advance" THEN currentQuestionIndex + 1
                          ELSE currentQuestionIndex,
                          cityJustSelected, citySuggestions, showSuggestions, FALSE)
                /\ flowErrors' =
                       IF outcome = "unselected"
                       THEN WithError(flowErrors, "location",
                                      "Please select a city from the suggestions")
                       ELSE IF outcome = "invalid"
                       THEN WithError(flowErrors, id,
                                      ValidateOne(id, CurrentValue(flowAnswers, id))[id])
                       ELSE IF outcome = "rejected"
                       THEN AsErrors(validateAnswers(AsValidated(flowAnswers)))
                       ELSE flowErrors
        /\ UNCHANGED <<pureVars, serverVars, appVars, historyVars, cacheVars, resultsVars>>

HandleBack ==
    /\ Interactive
    /\ currentQuestionIndex > 0
    /\ Render(flowAnswers, currentQuestionIndex - 1,
              cityJustSelected, citySuggestions, showSuggestions, FALSE)
    /\ flowLast' = "back"
    /\ UNCHANGED <<flowErrors, isLoadingSuggestions, showResumePrompt, validatedCities,
                   fetches, flowDone, chosen>>
    /\ UNCHANGED <<pureVars, serverVars, appVars, historyVars, cacheVars, resultsVars>>

\* handleSkip: every question has required: false
HandleSkip ==
    /\ Interactive
    /\ ~Required(QuestionAt(flowAnswers, currentQuestionIndex))
    /\ flowLast' = "skip"
    /\ UNCHANGED <<flowErrors, isLoadingSuggestions, showResumePrompt, validatedCities, chosen>>
    /\ IF IsLast(flowAnswers, currentQuestionIndex)
       THEN Complete
       ELSE /\ UNCHANGED <<fetches, flowDone>>
            /\ Render(flowAnswers, currentQuestionIndex + 1,
                      cityJustSelected, citySuggestions, showSuggestions, FALSE)
    /\ UNCHANGED <<pureVars, serverVars, appVars, historyVars, cacheVars, resultsVars>>

\* handleCitySelect: a click on an item of the open dropdown
HandleCitySelect ==
    /\ Interactive
    /\ QuestionType(QuestionAt(flowAnswers, currentQuestionIndex)) = "autocomplete"
    /\ showSuggestions
    /\ \E i \in 1..Len(citySuggestions) :
          Render(WithAnswer(flowAnswers, "location", citySuggestions[i].displayName),
                 currentQuestionIndex, TRUE, <<>>, FALSE, TRUE)
    /\ flowErrors' = WithError(flowErrors, "location", "")
    /\ validatedCities' = validatedCities \cup {"location"}
    /\ chosen' = TRUE
    /\ flowLast' = "select"
    /\ UNCHANGED <<isLoadingSuggestions, showResumePrompt, fetches, flowDone>>
    /\ UNCHANGED <<pureVars, serverVars, appVars, historyVars, cacheVars, resultsVars>>

\* the debounce timer fires: fetchCities sends its request
TimerFires ==
    /\ flowDone = null
    /\ timer # null
    /\ fetches < MaxFetches
    /\ timer' = null
    /\ fetches' = fetches + 1
    /\ isLoadingSuggestions' = TRUE
    /\ flowLast' = "timer"
    /\ UNCHANGED <<currentQuestionIndex, flowAnswers, flowErrors, citySuggestions,
                   showSuggestions, showResumePrompt, validatedCities, cityJustSelected,
                   flowDone, chosen>>
    /\ UNCHANGED <<pureVars, serverVars, storageVars, appVars, historyVars, cacheVars, resultsVars>>

\* a city request is answered: data.cities || []
FetchResponds ==
    /\ flowDone = null
    /\ fetches > 0
    /\ \E cities \in CityLists :
          /\ citySuggestions' = cities
          /\ showSuggestions' = (Len(cities) > 0)
    /\ isLoadingSuggestions' = FALSE
    /\ fetches' = fetches - 1
    /\ flowLast' = "response"
    /\ UNCHANGED <<currentQuestionIndex, flowAnswers, flowErrors, showResumePrompt,
                   validatedCities, cityJustSelected, timer, flowDone, chosen>>
    /\ UNCHANGED <<pureVars, serverVars, storageVars, appVars, historyVars, cacheVars, resultsVars>>

\* a city request fails
FetchFails ==
    /\ flowDone = null
    /\ fetches > 0
    /\ citySuggestions' = <<>>
    /\ isLoadingSuggestions' = FALSE
    /\ fetches' = fetches - 1
    /\ flowLast' = "failure"
    /\ UNCHANGED <<currentQuestionIndex, flowAnswers, flowErrors, showSuggestions,
                   showResumePrompt, validatedCities, cityJustSelected, timer, flowDone,
                   chosen>>
    /\ UNCHANGED <<pureVars, serverVars, storageVars, appVars, historyVars, cacheVars, resultsVars>>

\* onFocus of the location input
HandleFocus ==
    /\ Interactive
    /\ QuestionType(QuestionAt(flowAnswers, currentQuestionIndex)) = "autocomplete"
    /\ Len(CurrentValue(flowAnswers, "location")) >= 2
    /\ Len(citySuggestions) > 0
    /\ showSuggestions' = TRUE
    /\ flowLast' = "focus"
    /\ UNCHANGED <<currentQuestionIndex, flowAnswers, flowErrors, citySuggestions,
                   isLoadingSuggestions, showResumePrompt, validatedCities,
                   cityJustSelected, timer, fetches, flowDone, chosen>>
    /\ UNCHANGED <<pureVars, serverVars, storageVars, appVars, historyVars, cacheVars, resultsVars>>

\* handleClickOutside: a mouse press outside the open dropdown and the input
HandleClickOutside ==
    /\ Interactive
    /\ QuestionType(QuestionAt(flowAnswers, currentQuestionIndex)) = "autocomplete"
    /\ showSuggestions
    /\ Len(citySuggestions) > 0
    /\ showSuggestions' = FALSE
    /\ flowLast' = "outside"
    /\ UNCHANGED <<currentQuestionIndex, flowAnswers, flowErrors, citySuggestions,
                   isLoadingSuggestions, showResumePrompt, validatedCities,
                   cityJustSelected, timer, fetches, flowDone, chosen>>
    /\ UNCHANGED <<pureVars, serverVars, storageVars, appVars, historyVars, cacheVars, resultsVars>>

HandleStartFresh ==
    /\ flowDone = null
    /\ showResumePrompt
    /\ Render(EmptyAnswers, 0, cityJustSelected, citySuggestions, showSuggestions, FALSE)
    /\ showResumePrompt' = FALSE
    /\ chosen' = FALSE
    /\ flowLast' = "startFresh"
    /\ UNCHANGED <<flowErrors, isLoadingSuggestions, validatedCities, fetches, flowDone>>
    /\ UNCHANGED <<pureVars, serverVars, appVars, historyVars, cacheVars, resultsVars>>

HandleResume ==
    /\ flowDone = null
    /\ showResumePrompt
    /\ Render(flowAnswers,
              IF FirstUnanswered(flowAnswers) # -1 THEN FirstUnanswered(flowAnswers)
              ELSE currentQuestionIndex,
              cityJustSelected, citySuggestions, showSuggestions, FALSE)
    /\ showResumePrompt' = FALSE
    /\ flowLast' = "resume"
    /\ UNCHANGED <<flowErrors, isLoadingSuggestions, validatedCities, fetches, flowDone,
                   chosen>>
    /\ UNCHANGED <<pureVars, serverVars, appVars, historyVars, cacheVars, resultsVars>>

(***************************************************************************)
(* The cached handler GET /api/events/search (second half of               *)
(* backend/src/relevance.ts) with its node-cache.                          *)
(*                                                                         *)
(* Values of the query string are strings; the defaults of size and page   *)
(* are numbers.  A JSON value is kept with its type and its text, so that  *)
(* the number 20 and the string "20" are different texts.  Requests are    *)
(* handled one at a time.                                                  *)
(***************************************************************************)
\* maxKeys of the cache, scaled down
MaxKeys == 1

\* size = 20, page = 0
DefaultSize == 20
DefaultPage == 0

Digits == <<"0", "1", "2", "3", "4", "5", "6", "7", "8", "9">>

\* the decimal text of a number below 100
Decimal(n) ==
    IF n < 10 THEN <<Digits[n + 1]>> ELSE <<Digits[(n \div 10) + 1], Digits[(n % 10) + 1]>>

DigitValue(c) == (CHOOSE i \in 1..10 : Digits[i] = c) - 1

\* the number a string of one or two digits stands for
ParseInt(chars) ==
    IF Len(chars) = 1 THEN DigitValue(chars[1])
    ELSE 10 * DigitValue(chars[1]) + DigitValue(chars[2])

JsonNumber(n) == [type |-> "number", text |-> Decimal(n)]
JsonString(chars) == [type |-> "string", text |-> chars]

\* req.query
CacheQueries ==
    [keyword : {undefined, Some(<<>>)},
     city : {undefined, Some(<<"a">>)},
     classificationName : {undefined},
     size : {undefined, Some(<<"2", "0">>), Some(<<"5", "0">>)},
     page : {undefined, Some(<<"0">>)}]

\* what the upstream answers to the cached handler
CachedRawLists ==
    {<<>>,
     <<[name |-> Some(<<"a">>), city |-> undefined, classification |-> undefined]>>,
     <<[name |-> Some(<<"A", "b">>), city |-> Some(<<"a">>), classification |-> undefined]>>}

\* the members of params, in order; apikey first
BuildParams(query) ==
    <<<<"apikey", JsonString(<<"K">>)>>,
      <<"size", IF query.size = undefined THEN JsonNumber(DefaultSize)
                ELSE JsonString(query.size[1])>>,
      <<"page", IF query.page = undefined THEN JsonNumber(DefaultPage)
                ELSE JsonString(query.page[1])>>>>
    \o (IF Falsy(query.keyword) THEN <<>>
        ELSE <<<<"keyword", JsonString(query.keyword[1])>>>>)
    \o (IF Falsy(query.city) THEN <<>>
        ELSE <<<<"city", JsonString(query.city[1])>>>>)
    \o (IF Falsy(query.classificationName) THEN <<>>
        ELSE <<<<"classificationName", JsonString(query.classificationName[1])>>>>)

\* delete object[key]
DeleteMember(members, key) == SelectSeq(members, LAMBDA m : m[1] # key)

\* variant of CacheKey with a slip: nothing is deleted before JSON.stringify
CacheKey_WithApiKey(query) ==
    [kind |-> "json", members |-> BuildParams(query)]

\* cacheKey: JSON.stringify of params without apikey
CacheKey(query) ==
    [kind |-> "json", members |-> DeleteMember(BuildParams(query), "apikey")]

\* the criteria the relevance factors of the handler read
QueryCriteria(query) ==
    [keyword |-> query.keyword, city |-> query.city,
     classificationName |-> query.classificationName]

\* JSON.stringify of a transformed event: members with an undefined value
\* are left out
EventText(event) ==
    <<<<"name", event.name[1]>>>>
    \o (IF event.city = undefined THEN <<>> ELSE <<<<"city", event.city[1]>>>>)
    \o (IF event.classification = undefined THEN <<>>
        ELSE <<<<"classification", event.classification[1]>>>>)
    \o <<<<"relevanceFactors", event.relevanceFactors>>>>

\* JSON.stringify(result)
ResultText(transformed) ==
    [kind |-> "json", events |-> [i \in 1..Len(transformed) |-> EventText(transformed[i])]]

\* the request after normalization: absent and empty criteria alike, size
\* and page as the numbers in effect
Normalized(query) ==
    [keyword |-> IF Falsy(query.keyword) THEN undefined ELSE query.keyword,
     city |-> IF Falsy(query.city) THEN undefined ELSE query.city,
     classificationName |-> IF Falsy(query.classificationName) THEN undefined
                            ELSE query.classificationName,
     size |-> IF query.size = undefined THEN DefaultSize ELSE ParseInt(query.size[1]),
     page |-> IF query.page = undefined THEN DefaultPage ELSE ParseInt(query.page[1])]

NoQuery == [keyword |-> undefined, city |-> undefined, classificationName |-> undefined,
            size |-> undefined, page |-> undefined]
NoCacheResponse == [status |-> 0, fromCache |-> FALSE, body |-> ResultText(<<>>)]

\* eventCache.get(cacheKey): the texts stored under the key
CacheGet(key) == {entry.text : entry \in {x \in eventCache : x.key = key}}

CacheInit ==
    /\ cachePc = "idle"
    /\ cacheQuery = NoQuery
    /\ eventCache = {}
    /\ cacheResponse = NoCacheResponse
    /\ upstreamCalls = 0
    /\ expected = {}

\* the handler up to its await: a hit is answered from the cache, a miss
\* calls the upstream
CacheReceive ==
    /\ cachePc = "idle"
    /\ \E query \in CacheQueries :
          /\ cacheQuery' = query
          /\ expected' = {entry.text : entry \in
                             {x \in eventCache : x.norm = Normalized(query)}}
          /\ IF CacheGet(CacheKey(query)) # {}
             THEN /\ cachePc' = "responded"
                  /\ cacheResponse' = [status |-> 200, fromCache |-> TRUE,
                                       body |-> CHOOSE text \in CacheGet(CacheKey(query)) : TRUE]
                  /\ upstreamCalls' = 0
             ELSE /\ cachePc' = "awaiting"
                  /\ cacheResponse' = NoCacheResponse
                  /\ upstreamCalls' = 1
    /\ UNCHANGED eventCache
    /\ UNCHANGED <<pureVars, serverVars, storageVars, appVars, historyVars, flowVars, resultsVars>>

\* the upstream answers 2xx: the result is cached and sent; eventCache.set
\* throws on a full cache, which the catch block answers with 500
CacheUpstreamSuccess ==
    /\ cachePc = "awaiting"
    /\ \E rawEvents \in CachedRawLists :
          LET text == ResultText(TransformEvents(rawEvents, QueryCriteria(cacheQuery)))
          IN  IF Cardinality(eventCache) >= MaxKeys
              THEN /\ cacheResponse' = [status |-> CatchResponse(OtherError).status,
                                        fromCache |-> FALSE, body |-> ResultText(<<>>)]
                   /\ UNCHANGED eventCache
              ELSE /\ eventCache' = eventCache \cup
                          {[key |-> CacheKey(cacheQuery), text |-> text,
                            norm |-> Normalized(cacheQuery)]}
                   /\ cacheResponse' = [status |-> 200, fromCache |-> FALSE, body |-> text]
    /\ cachePc' = "responded"
    /\ UNCHANGED <<cacheQuery, upstreamCalls, expected>>
    /\ UNCHANGED <<pureVars, serverVars, storageVars, appVars, historyVars, flowVars, resultsVars>>

\* the upstream call fails: nothing is cached
CacheUpstreamFailure ==
    /\ cachePc = "awaiting"
    /\ \E caught \in {ErrorWithResponse(status) : status \in UpstreamErrorStatuses}
                     \cup {ErrorWithoutResponse, OtherError} :
          cacheResponse' = [status |-> CatchResponse(caught).status,
                            fromCache |-> FALSE, body |-> ResultText(<<>>)]
    /\ cachePc' = "responded"
    /\ UNCHANGED <<cacheQuery, eventCache, upstreamCalls, expected>>
    /\ UNCHANGED <<pureVars, serverVars, storageVars, appVars, historyVars, flowVars, resultsVars>>

\* the response has been sent; the server takes the next request
CacheFinish ==
    /\ cachePc = "responded"
    /\ cachePc' = "idle"
    /\ cacheQuery' = NoQuery
    /\ cacheResponse' = NoCacheResponse
    /\ upstreamCalls' = 0
    /\ expected' = {}
    /\ UNCHANGED eventCache
    /\ UNCHANGED <<pureVars, serverVars, storageVars, appVars, historyVars, flowVars, resultsVars>>

\* stdTTL has passed for an entry
CacheExpire ==
    /\ \E entry \in eventCache : eventCache' = eventCache \ {entry}
    /\ UNCHANGED <<cachePc, cacheQuery, cacheResponse, upstreamCalls, expected>>
    /\ UNCHANGED <<pureVars, serverVars, storageVars, appVars, historyVars, flowVars, resultsVars>>

(***************************************************************************)
(* EventResults.tsx: filters and sort order of the results table.          *)
(*                                                                         *)
(* An event is kept as the fields the filters and the sort read; dates are *)
(* day numbers, whose order is that of the ISO date strings.  The array    *)
(* the view is handed is the array App holds, so a change made to it in    *)
(* place is a change of App's events.                                      *)
(***************************************************************************)
\* most events handed to the view
MaxShown == 2

ShownNames == {<<"a">>, <<"b">>}
ShownCities == {"Boston", "Austin"}
ShownDates == {1, 2}
ShownGenres == {"rock"}

\* lists as the endpoint returns them: position i + 1 at index i
ShownLists ==
    UNION {{[i \in 1..n |-> [name |-> f[i].name, city |-> f[i].city, date |-> f[i].date,
                            genre |-> f[i].genre,
                            relevanceFactors |-> [position |-> i]]] :
               f \in [1..n -> [name : ShownNames, city : ShownCities, date : ShownDates,
                               genre : ShownGenres]]} :
           n \in 0..MaxShown}

SearchInputs == {<<>>, <<"A">>}
GenreInputs == {"", "rock"}
SortOrders == {"date", "relevance", "name"}

NoFilters == [search |-> <<>>, city |-> "", genre |-> ""]

\* the place of a name in the order of localeCompare: by its first letter
NameRank(name) ==
    IF name = <<>> THEN 0
    ELSE IF toLowerCase(name)[1] = "a" THEN 1 ELSE 2

\* the number whose order the comparator of the sort follows
SortKey(event, order) ==
    IF order = "date" THEN event.date
    ELSE IF order = "name" THEN NameRank(event.name)
    ELSE event.relevanceFactors.position

\* Array.prototype.sort with that comparator: stable
Sorted(list, order) ==
    LET before(i, j) == \/ SortKey(list[i], order) < SortKey(list[j], order)
                        \/ SortKey(list[i], order) = SortKey(list[j], order) /\ i < j
        rank(i) == Cardinality({j \in 1..Len(list) : before(j, i)}) + 1
    IN  [k \in 1..Len(list) |-> list[CHOOSE i \in 1..Len(list) : rank(i) = k]]

\* the three filter() calls, or the array itself when no filter is set
Filtered(list, f) ==
    LET bySearch == IF f.search = <<>> THEN list
                    ELSE SelectSeq(list, LAMBDA event :
                             includes(toLowerCase(event.name), toLowerCase(f.search)))
        byCity == IF f.city = "" THEN bySearch
                  ELSE SelectSeq(bySearch, LAMBDA event : event.city = f.city)
    IN  IF f.genre = "" THEN byCity
        ELSE SelectSeq(byCity, LAMBDA event : event.genre = f.genre)

\* whether filtered is still the events array itself when sort is called
SameArray(f) == f.search = <<>> /\ f.city = "" /\ f.genre = ""

\* the useMemo of filteredEvents: the displayed list, and the events array
\* after the sort, which is done in place
Memo(list, f, order) ==
    [events |-> IF SameArray(f) THEN Sorted(list, order) ELSE list,
     filteredEvents |-> Sorted(Filtered(list, f), order)]

ResultsInit ==
    /\ resultsShown = FALSE
    /\ received = <<>>
    /\ filters = NoFilters
    /\ sortBy = "relevance"
    /\ filteredEvents = <<>>
    /\ original = <<>>

\* App renders EventResults with its events
ShowResults ==
    /\ ~resultsShown
    /\ \E list \in ShownLists :
          /\ original' = list
          /\ received' = Memo(list, NoFilters, "relevance").events
          /\ filteredEvents' = Memo(list, NoFilters, "relevance").filteredEvents
    /\ resultsShown' = TRUE
    /\ filters' = NoFilters
    /\ sortBy' = "relevance"
    /\ UNCHANGED <<pureVars, serverVars, storageVars, appVars, historyVars, flowVars, cacheVars>>

\* setFilters and setSortBy, each followed by the render that runs the memo;
\* the view has a control for the text and for the genre filter, none for
\* the city filter, which keeps its initial value
Rerender ==
    /\ received' = Memo(received, filters', sortBy').events
    /\ filteredEvents' = Memo(received, filters', sortBy').filteredEvents
    /\ UNCHANGED <<resultsShown, original>>

SetSearchFilter ==
    /\ resultsShown
    /\ \E value \in SearchInputs \ {filters.search} :
          filters' = [filters EXCEPT !.search = value]
    /\ UNCHANGED sortBy
    /\ Rerender
    /\ UNCHANGED <<pureVars, serverVars, storageVars, appVars, historyVars, flowVars, cacheVars>>

SetGenreFilter ==
    /\ resultsShown
    /\ \E value \in GenreInputs \ {filters.genre} :
          filters' = [filters EXCEPT !.genre = value]
    /\ UNCHANGED sortBy
    /\ Rerender
    /\ UNCHANGED <<pureVars, serverVars, storageVars, appVars, historyVars, flowVars, cacheVars>>

SetSortBy ==
    /\ resultsShown
    /\ \E order \in SortOrders \ {sortBy} : sortBy' = order
    /\ UNCHANGED filters
    /\ Rerender
    /\ UNCHANGED <<pureVars, serverVars, storageVars, appVars, historyVars, flowVars, cacheVars>>

\* onStartOver: the view is unmounted
CloseResults ==
    /\ resultsShown
    /\ resultsShown' = FALSE
    /\ received' = <<>>
    /\ filters' = NoFilters
    /\ sortBy' = "relevance"
    /\ filteredEvents' = <<>>
    /\ original' = <<>>
    /\ UNCHANGED <<pureVars, serverVars, storageVars, appVars, historyVars, flowVars, cacheVars>>

(***************************************************************************)
(* Specifications.                                                         *)
(***************************************************************************)
Init ==
    /\ PureInit
    /\ ServerInit
    /\ StorageInit
    /\ AppInit
    /\ HistoryInit
    /\ FlowInit
    /\ CacheInit
    /\ ResultsInit

Next ==
    \/ CallHasKeywordMatch
    \/ CallMatchesClassification
    \/ CallMatchesCity
    \/ CallCalculateRelevanceFactors
    \/ CallCalculateRelevanceScore
    \/ Return

Spec == Init /\ [][Next]_vars

NextServer ==
    \/ ReceiveSearch
    \/ UpstreamSuccess
    \/ UpstreamErrorResponse
    \/ UpstreamNoResponse
    \/ OtherFailure
    \/ FinishRequest

SpecServer == Init /\ [][NextServer]_vars

\* the upstream call settles: it answers, fails or times out after 10 s
SpecServerFair ==
    SpecServer /\ WF_vars(UpstreamSuccess \/ UpstreamErrorResponse
                              \/ UpstreamNoResponse \/ OtherFailure)

NextStorage ==
    \/ CallSaveAnswers
    \/ CallClearAnswers
    \/ CallSaveAppState
    \/ CallClearAppState
    \/ CorruptItem

SpecStorage == Init /\ [][NextStorage]_vars

NextApp ==
    \/ Reload
    \/ HandleSearch
    \/ SearchSuccess
    \/ SearchEmpty
    \/ SearchFailure
    \/ HandleStartOver
    \/ DismissError

SpecApp == Init /\ [][NextApp]_vars

\* the App together with a question flow that saves and clears its answers
NextAppAnswers ==
    \/ Reload
    \/ HandleSearch
    \/ SearchSuccess
    \/ SearchEmpty
    \/ SearchFailure
    \/ HandleStartOver
    \/ DismissError
    \/ CallSaveAnswers
    \/ CallClearAnswers

SpecAppAnswers == Init /\ [][NextAppAnswers]_vars

\* a request sent by eventApi.searchEvents resolves or rejects in the end
SpecAppFair ==
    SpecApp /\ WF_vars(SearchSuccess \/ SearchEmpty \/ SearchFailure)

NextQuestions ==
    \/ CallValidateAnswers
    \/ Return

SpecQuestions == Init /\ [][NextQuestions]_vars

NextFlow ==
    \/ Mount
    \/ HandleAnswer
    \/ HandleNext
    \/ HandleBack
    \/ HandleSkip
    \/ HandleCitySelect
    \/ TimerFires
    \/ FetchResponds
    \/ FetchFails
    \/ HandleFocus
    \/ HandleClickOutside
    \/ HandleStartFresh
    \/ HandleResume

SpecFlow == Init /\ [][NextFlow]_vars

NextCache ==
    \/ CacheReceive
    \/ CacheUpstreamSuccess
    \/ CacheUpstreamFailure
    \/ CacheFinish
    \/ CacheExpire

SpecCache == Init /\ [][NextCache]_vars

NextResults ==
    \/ ShowResults
    \/ SetSearchFilter
    \/ SetGenreFilter
    \/ SetSortBy
    \/ CloseResults

SpecResults == Init /\ [][NextResults]_vars

NextHistory ==
    \/ CallAddToSearchHistory
    \/ CallClearSearchHistory

SpecHistory == Init /\ [][NextHistory]_vars

(***************************************************************************)
(* Vocabulary of the properties, stated without the operators above.       *)
(***************************************************************************)
Evaluators == {"hasKeywordMatch", "matchesClassification", "matchesCity"}

\* an optional string that is absent or the empty string
AbsentOrEmpty(x) == x = undefined \/ x = Some(<<>>)

\* t occurs in s as a contiguous substring, letters compared ignoring case
ContainsIgnoringCase(s, t) ==
    \E start \in 1..(Len(s) + 1) :
        /\ start + Len(t) - 1 <= Len(s)
        /\ \A k \in 1..Len(t) : LowerChar(s[start + k - 1]) = LowerChar(t[k])

EqualIgnoringCase(s, t) ==
    /\ Len(s) = Len(t)
    /\ \A k \in 1..Len(s) : LowerChar(s[k]) = LowerChar(t[k])

Indicator(b) == IF b THEN 1 ELSE 0

NoFactorTrue(f) ==
    /\ f.hasKeywordMatch # JsTrue
    /\ f.matchesClassification # JsTrue
    /\ f.matchesCity # JsTrue

FactorNames == {"hasKeywordMatch", "matchesClassification", "matchesCity"}
Weight(name) == IF name = "hasKeywordMatch" THEN 30 ELSE 25

(***************************************************************************)
(* Properties.                                                             *)
(***************************************************************************)

\* C1: each of hasKeywordMatch, matchesClassification and matchesCity returns
\* null if and only if its search-criterion argument is absent or the empty
\* string, whatever the event-side argument is.
C1_NullIffCriterionAbsent ==
    op \in Evaluators => ((result = JsNull) <=> AbsentOrEmpty(args.search))

\* C1 witness: an empty search city against a present event city gives null.
C1_Witness ==
    /\ op = "matchesCity"
    /\ args.search = Some(<<>>)
    /\ args.event = Some(<<"a", "b">>)
    /\ result = JsNull

\* C2: for every position >= 1 the score is
\* min(100, 20 + bonus + 30*[keyword] + 25*[classification] + 25*[city]) with
\* bonus (10 - position) * 2 for positions 1..10 and 0 above 10.
C2_ScoreFormula ==
    (op = "calculateRelevanceScore" /\ args.position >= 1) =>
        LET bonus == IF args.position <= 10 THEN (10 - args.position) * 2 ELSE 0
            total == 20 + bonus
                     + 30 * Indicator(args.hasKeywordMatch = JsTrue)
                     + 25 * Indicator(args.matchesClassification = JsTrue)
                     + 25 * Indicator(args.matchesCity = JsTrue)
        IN  result = (IF total > 100 THEN 100 ELSE total)

\* C2 witness: position 11 with a keyword match scores 50, as position 10 does.
C2_Witness ==
    /\ op = "calculateRelevanceScore"
    /\ args.position = 11
    /\ args.hasKeywordMatch = JsTrue
    /\ args.matchesClassification # JsTrue
    /\ args.matchesCity # JsTrue
    /\ result = 50

\* C3 (the claim as stated): for every position <= 0 and every position > 10
\* the position bonus is 0, so with no factor true the score is 20.
C3_NoBonusOutsideOneToTen ==
    (/\ op = "calculateRelevanceScore"
     /\ (args.position <= 0 \/ args.position > 10)
     /\ NoFactorTrue(args)) => result = 20

\* C4: for every integer position, zero and negative ones included, and every
\* combination of factors, the score is an integer in 20..100.
C4_ScoreRange ==
    op = "calculateRelevanceScore" => result \in 20..100

\* C4 witness: a negative position whose total exceeds 100 is capped at 100.
C4_Witness ==
    /\ op = "calculateRelevanceScore"
    /\ args.position < 0
    /\ args.hasKeywordMatch = JsTrue
    /\ args.matchesClassification = JsTrue
    /\ result = 100

\* C5: null and false are treated identically: any factors record with the
\* same position and the same set of true factors has the same score.
C5_NullSameAsFalse ==
    op = "calculateRelevanceScore" =>
        \A other \in RelevanceFactorsSet :
            (/\ other.position = args.position
             /\ \A name \in FactorNames : (other[name] = JsTrue) <=> (args[name] = JsTrue))
            => calculateRelevanceScore(other) = result

\* C5 witness: a call with a null factor, a false factor and a true factor.
C5_Witness ==
    /\ op = "calculateRelevanceScore"
    /\ args.position = 5
    /\ args.hasKeywordMatch = JsNull
    /\ args.matchesClassification = JsFalse
    /\ args.matchesCity = JsTrue
    /\ result = 55

\* C6: changing one factor from false or null to true, the position and the
\* other factors fixed, never lowers the score: it raises it by the factor's
\* weight (30 or 25) unless the cap at 100 applies.
C6_MonotoneInEachFactor ==
    op = "calculateRelevanceScore" =>
        \A name \in FactorNames :
            args[name] # JsTrue =>
                LET raised == calculateRelevanceScore([args EXCEPT ![name] = JsTrue])
                IN  /\ raised >= result
                    /\ raised = result + Weight(name) \/ raised = 100

\* C6 witness: a score of 93 that a city match can only raise to the cap.
C6_Witness ==
    /\ op = "calculateRelevanceScore"
    /\ args.position = 1
    /\ args.matchesCity = JsFalse
    /\ result = 93

\* C7: with a non-empty keyword, hasKeywordMatch returns false for an empty
\* event name and otherwise true exactly when the lower-cased event name
\* contains the lower-cased keyword (the name must contain the keyword).
C7_KeywordContainment ==
    (op = "hasKeywordMatch" /\ ~AbsentOrEmpty(args.search) /\ args.event # undefined) =>
        IF args.event = Some(<<>>)
        THEN result = JsFalse
        ELSE (result = JsTrue) <=> ContainsIgnoringCase(args.event[1], args.search[1])

\* C7 witness: a keyword that contains the event name, and differs from it,
\* does not match.
C7_Witness ==
    /\ op = "hasKeywordMatch"
    /\ args.event = Some(<<"a">>)
    /\ args.search = Some(<<"A", "b">>)
    /\ result = JsFalse

\* C8: with a non-empty search city, matchesCity returns false for an absent or
\* empty event city and otherwise true exactly when, ignoring case, one of the
\* two contains the other; so it is symmetric when both are non-empty.
C8_CityBidirectional ==
    (op = "matchesCity" /\ ~AbsentOrEmpty(args.search)) =>
        IF AbsentOrEmpty(args.event)
        THEN result = JsFalse
        ELSE /\ (result = JsTrue) <=>
                    \/ ContainsIgnoringCase(args.event[1], args.search[1])
                    \/ ContainsIgnoringCase(args.search[1], args.event[1])
             /\ result \in {JsTrue, JsFalse}
             /\ matchesCity(args.search, args.event) = result

\* C8 witness: a search city that contains the event city matches.
C8_Witness ==
    /\ op = "matchesCity"
    /\ args.event = Some(<<"a">>)
    /\ args.search = Some(<<"A", "b">>)
    /\ result = JsTrue

\* C9: with a non-empty search classification, matchesClassification returns
\* false for an absent or empty event classification and otherwise true exactly
\* when the two strings are equal ignoring case; a proper substring is no match.
C9_ClassificationEquality ==
    (op = "matchesClassification" /\ ~AbsentOrEmpty(args.search)) =>
        IF AbsentOrEmpty(args.event)
        THEN result = JsFalse
        ELSE /\ (result = JsTrue) <=> EqualIgnoringCase(args.event[1], args.search[1])
             /\ result \in {JsTrue, JsFalse}

\* C9 witness: a search classification that is a proper substring of the
\* event classification does not match.
C9_Witness ==
    /\ op = "matchesClassification"
    /\ args.event = Some(<<"A", "b">>)
    /\ args.search = Some(<<"a">>)
    /\ result = JsFalse

\* C10: calculateRelevanceFactors(event, criteria, p) returns position p
\* unchanged and the three fields equal to hasKeywordMatch(event.name,
\* criteria.keyword), matchesClassification(event.classification,
\* criteria.classificationName) and matchesCity(event.city, criteria.city).
C10_FactorsComposition ==
    op = "calculateRelevanceFactors" =>
        /\ result.position = args.position
        /\ result.hasKeywordMatch =
               hasKeywordMatch(args.event.name, args.searchCriteria.keyword)
        /\ result.matchesClassification =
               matchesClassification(args.event.classification,
                                     args.searchCriteria.classificationName)
        /\ result.matchesCity = matchesCity(args.event.city, args.searchCriteria.city)

\* C10 witness: a negative position copied through, with the three fields
\* taking three different values.
C10_Witness ==
    /\ op = "calculateRelevanceFactors"
    /\ args.position < 0
    /\ result.position = args.position
    /\ result.hasKeywordMatch = JsTrue
    /\ result.matchesClassification = JsFalse
    /\ result.matchesCity = JsNull

\* C11 (the claim as stated): the relevanceFactors the endpoint attaches to
\* the event made from the record at 0-based index i equal
\* calculateRelevanceFactors on the record's (name, venue city, segment) view,
\* the criteria and position i + 1; so with a city criterion and no venue city
\* matchesCity is false.
C11_EndpointFactorsAreAggregator ==
    (srvPc = "responded" /\ srvResponse.status = 200) =>
        \A i \in 1..Len(srvUpstream) :
            srvResponse.events[i].relevanceFactors =
                calculateRelevanceFactors(srvUpstream[i], srvCriteria, i)

\* C12: a successful search returns one transformed event per upstream
\* record, in the upstream order, and the event at 0-based index i carries
\* position i + 1.
C12_OrderAndPositions ==
    (srvPc = "responded" /\ srvResponse.status = 200) =>
        /\ Len(srvResponse.events) = Len(srvUpstream)
        /\ \A i \in 1..Len(srvUpstream) :
              /\ srvResponse.events[i].name = srvUpstream[i].name
              /\ srvResponse.events[i].city = srvUpstream[i].city
              /\ srvResponse.events[i].classification = srvUpstream[i].classification
              /\ srvResponse.events[i].relevanceFactors.position = i

\* C12 witness: two different records answered in their upstream order.
C12_Witness ==
    /\ srvPc = "responded"
    /\ srvResponse.status = 200
    /\ Len(srvUpstream) = 2
    /\ srvUpstream[1].name = Some(<<"A", "b">>)
    /\ srvUpstream[2].name = Some(<<>>)
    /\ srvResponse.events[1].name = Some(<<"A", "b">>)
    /\ srvResponse.events[2].relevanceFactors.position = 2


\* C14: after any sequence of saveAnswers and clearAnswers calls (and any
\* other writes before the last one), loadAnswers() returns the argument of
\* the last saveAnswers when that was the last write, and null when the last
\* write was clearAnswers or nothing was ever written.
C14_LoadAnswersReturnsLastSaved ==
    /\ lastWrite = "saveAnswers" => loadAnswers(stored) = Returned(Some(lastArg))
    /\ lastWrite \in {"none", "clearAnswers"} => loadAnswers(stored) = Returned(null)

\* answers saved over a stored results state replace whatever was there
C14_Witness ==
    /\ lastWrite = "saveAnswers"
    /\ DOMAIN lastArg = {"eventType"}
    /\ loadAppState(stored).value # null
    /\ loadAppState(stored).value[1].stage = "results"
    /\ loadAnswers(stored) = Returned(Some(lastArg))

\* C15: hasSavedAnswers() is true exactly when loadAnswers() returns an object
\* with at least one key: false on an empty storage, after clearAnswers and
\* after saveAnswers({}), true after saveAnswers of an object with a key.
C15_HasSavedAnswersIffAKey ==
    /\ hasSavedAnswers(stored) <=>
           /\ loadAnswers(stored).value # null
           /\ DOMAIN loadAnswers(stored).value[1] # {}
    /\ lastWrite \in {"none", "clearAnswers"} => ~hasSavedAnswers(stored)
    /\ lastWrite = "saveAnswers" => (hasSavedAnswers(stored) <=> DOMAIN lastArg # {})

\* saveAnswers({}) was the last call: an object is stored, without keys
C15_Witness ==
    /\ lastWrite = "saveAnswers"
    /\ DOMAIN lastArg = {}
    /\ loadAnswers(stored).value # null
    /\ ~hasSavedAnswers(stored)

\* C16: loadAppState() returns the stage, the events in their order and the
\* lastSearchParams of the last saveAppState argument when that was the last
\* write, and null when the last write was clearAppState or nothing was written.
C16_LoadAppStateReturnsLastSaved ==
    /\ lastWrite = "saveAppState" =>
           /\ ~loadAppState(stored).threw
           /\ loadAppState(stored).value # null
           /\ loadAppState(stored).value[1].stage = lastArg.stage
           /\ loadAppState(stored).value[1].events = lastArg.events
           /\ loadAppState(stored).value[1].lastSearchParams = lastArg.lastSearchParams
    /\ lastWrite \in {"none", "clearAppState"} => loadAppState(stored) = Returned(null)

\* a results state with two different events and search params was saved
C16_Witness ==
    /\ lastWrite = "saveAppState"
    /\ lastArg.stage = "results"
    /\ Len(lastArg.events) = 2
    /\ lastArg.events[1] # lastArg.events[2]
    /\ lastArg.lastSearchParams # null
    /\ loadAppState(stored).value[1].events = lastArg.events

\* C17: loadAppState() and loadAnswers() never throw; with no item or an item
\* that is not JSON both return null and a mounting App starts at 'search'
\* with no events.
C17_LoadersNeverThrow ==
    /\ ~loadAppState(stored).threw
    /\ ~loadAnswers(stored).threw
    /\ (stored = Absent \/ stored = Some(Garbage)) =>
           /\ loadAppState(stored) = Returned(null)
           /\ loadAnswers(stored) = Returned(null)
           /\ AppInitialState(stored) =
                  [crashed |-> FALSE, stage |-> "search", events |-> <<>>,
                   error |-> null, lastSearchParams |-> null]

\* the item holds text that is not JSON
C17_Witness ==
    /\ lastWrite = "corrupt"
    /\ stored = Some(Garbage)
    /\ loadAppState(stored) = Returned(null)
    /\ loadAnswers(stored) = Returned(null)

\* C19: validateAnswers reports an error under 'location' whenever the
\* location answer is the empty string or only blanks, and none for a
\* location of two or more non-blank characters.
C19_LocationErrorIffEmpty ==
    (op = "validateAnswers" /\ args.location # undefined) =>
        /\ Len(trim(args.location[1])) = 0 => "location" \in DOMAIN result
        /\ (Len(args.location[1]) >= 2 /\ \A i \in 1..Len(args.location[1]) :
                args.location[1][i] # " ") => "location" \notin DOMAIN result

\* C20: whenever the App is at stage 'search', in particular after start
\* over from results or no-results, the persisted app state is cleared:
\* loadAppState() returns null and a reload starts at 'search' with no events
\* and no last search params.
C20_SearchStageHasNothingPersisted ==
    stage = "search" =>
        /\ loadAppState(stored) = Returned(null)
        /\ AppInitialState(stored) =
               [crashed |-> FALSE, stage |-> "search", events |-> <<>>,
                error |-> null, lastSearchParams |-> null]

\* start over from a page that had events and search params in memory
C20_Witness ==
    /\ appLast = "startOver"
    /\ stage = "search"
    /\ events # <<>>
    /\ lastSearchParams # null
    /\ stored = Absent


\* C18: the search history never holds more than 10 entries, and after n
\* additions since the last clear it is the min(n, 10) most recent of them,
\* newest first.
C18_HistoryIsTenMostRecent ==
    LET history == getSearchHistory(storedHistory)
        n == Len(added)
        k == Min(n, 10)
    IN  /\ Len(history) <= 10
        /\ Len(history) = k
        /\ \A i \in 1..k : history[i] = added[n - i + 1]

\* an eleventh entry was added and the oldest one dropped
C18_Witness ==
    /\ Len(added) = 11
    /\ Len(getSearchHistory(storedHistory)) = 10
    /\ getSearchHistory(storedHistory)[1] = added[11]
    /\ getSearchHistory(storedHistory)[10] = added[2]

\* C21: a search starts only at stage 'search' and moves the App to
\* 'loading' with the error cleared and one request in flight; a loading App
\* leaves that stage, and every way out other than a page reload is the
\* outcome of that request: 'results' with the events of a response that has
\* some, 'no-results' for a response that has none, or 'search' with an error
\* message for a failed request; never is more than one request in flight.
C21_SearchLifecycle ==
    /\ [](inFlight <= 1 /\ (stage = "loading" <=> inFlight = 1))
    /\ [][ /\ (stage # "loading" /\ stage' = "loading") =>
                 (stage = "search" /\ error' = null /\ inFlight = 0 /\ inFlight' = 1)
           /\ (stage = "loading" /\ stage' # "loading" /\ appLast' # "mount") =>
                 /\ inFlight' = 0
                 /\ \/ /\ stage' = "results"
                       /\ lastResponse'.kind = "events"
                       /\ Len(lastResponse'.events) >= 1
                       /\ events' = lastResponse'.events
                    \/ /\ stage' = "no-results"
                       /\ lastResponse'.kind = "events"
                       /\ lastResponse'.events = <<>>
                    \/ /\ stage' = "search"
                       /\ lastResponse'.kind = "failure"
                       /\ error' # null
         ]_vars
    /\ (stage = "loading") ~> (stage # "loading")

\* a search for the second set of params came back with two events
C21_Witness ==
    /\ stage = "results"
    /\ appLast = "success"
    /\ lastResponse.kind = "events"
    /\ events = lastResponse.events
    /\ Len(events) = 2
    /\ lastSearchParams = Some([location |-> "Smalltown, USA", dateRange |-> "today",
                                eventType |-> ""])
    /\ inFlight = 0

C23_NextOnLocationNeedsSelection ==
    [][(flowLast' = "next" /\ QuestionAt(flowAnswers, currentQuestionIndex) = "location") =>
          /\ currentQuestionIndex' = currentQuestionIndex + 1 => chosen
          /\ ~chosen =>
                 /\ currentQuestionIndex' = currentQuestionIndex
                 /\ flowErrors'["location"] = "Please select a city from the suggestions"
      ]_vars

\* Next has moved the flow past a location picked from the list
C23_Witness ==
    /\ flowLast = "next"
    /\ currentQuestionIndex = 1
    /\ chosen
    /\ "location" \in validatedCities
    /\ flowAnswers["location"] = <<"a", "a", "a">>
    /\ flowErrors["location"] = ""

\* C29: the question flow calls onComplete only with answers for which
\* validateAnswers returns no errors, however the last question is finished.
C29_CompletesOnlyWithValidAnswers ==
    flowDone # null => DOMAIN validateAnswers(AsValidated(flowDone[1])) = {}

\* C30: after a city is selected, and until the location text is next
\* edited, the suggestion list is empty and the dropdown is closed.
C30_ClosedAfterSelection ==
    chosen => (citySuggestions = <<>> /\ ~showSuggestions)

\* C24: in the cached handler a request equal after normalization to one
\* whose result is cached and has not expired is answered from the cache,
\* with the cached body and without an upstream call; and no cache key
\* contains the API key.
C24_NormalizedRequestsShareCacheKey ==
    /\ \A entry \in eventCache :
           \A i \in 1..Len(entry.key.members) : entry.key.members[i][1] # "apikey"
    /\ (cachePc \in {"awaiting", "responded"} /\ expected # {}) =>
           /\ upstreamCalls = 0
           /\ cachePc = "responded"
           /\ cacheResponse.fromCache
           /\ cacheResponse.body \in expected

\* C28: in the results view no change of the filters or of the sort order
\* changes the events list received from App; the displayed list is a
\* sub-list of the received events, and with sort 'relevance' it is in
\* ascending relevanceFactors.position.
C28_FiltersLeaveEventsAlone ==
    resultsShown =>
        /\ received = original
        /\ \A i \in 1..Len(filteredEvents) :
               \E j \in 1..Len(original) : filteredEvents[i] = original[j]
        /\ Len(filteredEvents) <= Len(original)
        /\ sortBy = "relevance" =>
               \A i \in 1..Len(filteredEvents) - 1 :
                   filteredEvents[i].relevanceFactors.position
                       < filteredEvents[i + 1].relevanceFactors.position

\* C25: whenever the stage is 'no-results', the events the App holds and the
\* events it has persisted for that stage are empty.
C25_NoResultsHoldsNoEvents ==
    stage = "no-results" =>
        /\ events = <<>>
        /\ loadAppState(stored).value # null =>
               loadAppState(stored).value[1].events = <<>>

\* C26: through any App operations the stored app state, when there is one,
\* has stage 'results' or 'no-results'; a mount from it is never at stage
\* 'loading'.
C26_StoredStageIsFinal ==
    /\ loadAppState(stored).value # null =>
           loadAppState(stored).value[1].stage \in {"results", "no-results"}
    /\ AppInitialState(stored).stage # "loading"
    /\ appLast = "mount" => stage # "loading"

\* a reload that rehydrated the App from a stored state
C26_Witness ==
    /\ appLast = "mount"
    /\ stage \in {"results", "no-results"}
    /\ loadAppState(stored).value # null
    /\ loadAppState(stored).value[1].stage = stage

\* C27: saveAnswers and clearAnswers leave the stage, events and
\* lastSearchParams of an existing stored state as they are, and the App's
\* persistence never discards or alters the answers stored by saveAnswers.
C27_AnswersAndAppStateIndependent ==
    [][/\ (lastWrite' \in {"saveAnswers", "clearAnswers"}
              /\ loadAppState(stored).value # null)
          => /\ loadAppState(stored').value # null
             /\ loadAppState(stored').value[1].stage = loadAppState(stored).value[1].stage
             /\ loadAppState(stored').value[1].events = loadAppState(stored).value[1].events
             /\ loadAppState(stored').value[1].lastSearchParams
                    = loadAppState(stored).value[1].lastSearchParams
       /\ lastWrite' \in {"saveAppState", "clearAppState"}
          => loadAnswers(stored') = loadAnswers(stored)]_vars

====
